---- MODULE Spec2Model ----
(***************************************************************************)
(* Model of the background job orchestration of media-vibes:               *)
(*   - JobManager (Start / Stop / IsRunning / TriggerTorrentSearchForMovie *)
(*     / CancelJobsForMovie / runPeriodicTorrentSearch)                    *)
(*   - TorrentSearchJob (SearchForMovie / ProcessMovieQueue /              *)
(*     downloadTorrent)                                                    *)
(*   - the movie rows and the event log they read and write.               *)
(* Every database call (GetByID, GetAll, Update, Delete) is one atomic     *)
(* step; event inserts only touch the log of the appending call and are    *)
(* folded into the step of the statement that precedes them.               *)
(***************************************************************************)
EXTENDS Integers, Sequences, FiniteSets, TLC

\* ---------------------------------------------------------------- bounds
NumMovies == 2          \* movie ids 1..NumMovies
MaxTriggers == 1        \* on-demand trigger goroutines in flight at once
MaxPeriodic == 2        \* slots for runPeriodicTorrentSearch goroutines

MovieIds == 1..NumMovies
PeriodicSlots == 1..MaxPeriodic
TriggerSlots == (MaxPeriodic + 1)..(MaxPeriodic + MaxTriggers)
Tasks == PeriodicSlots \cup TriggerSlots

\* ------------------------------------------------------- models constants
StatusWanted == "wanted"
StatusSearching == "searching"
StatusDownloading == "downloading"
StatusDownloaded == "downloaded"
StatusProcessing == "processing"
StatusReady == "ready"
StatusFailed == "failed"
StatusNotFound == "not_found"
MediaStatus == {StatusWanted, StatusSearching, StatusDownloading, StatusDownloaded,
                StatusProcessing, StatusReady, StatusFailed, StatusNotFound}

EventSearchStarted == "search_started"
EventSearchCompleted == "search_completed"
EventSearchFailed == "search_failed"
EventTorrentFound == "torrent_found"
EventDownloadStarted == "download_started"
EventDownloadFailed == "download_failed"
EventStatusChanged == "status_changed"

\* A row of the movies table, by its status column (the column the jobs decide on).
\* NoMovie: the row does not exist (never created, or deleted).
NoMovie == [Status |-> "absent"]

VARIABLES
  torrentSearchJob,    \* JobManager.torrentSearchJob # nil
  movieEventRepo,      \* TorrentSearchJob.movieEventRepo # nil
  qbittorrentService,  \* TorrentSearchJob.qbittorrentService # nil
  running,             \* JobManager.running
  cancelled,           \* JobManager.ctx is done (cancel() was called)
  wg,                  \* JobManager.wg counter
  mu,                  \* JobManager.mu: "free", "W" (held by Stop), "R" (held by CancelJobsForMovie)
  stopPc,              \* position of the Stop() call: "idle", "waiting" (in wg.Wait)
  canc,                \* the CancelJobsForMovie call in progress
  tasks,               \* the goroutines: periodic loop slots and trigger slots
  movies,              \* movies table: id -> row
  events,              \* event log, per appending goroutine: events of its current SearchForMovie call
  search,              \* the query loop of a SearchForMovie call followed call by call
  writeFails,          \* the tables whose writes the database rejects now: "movies", "events"
  filter,              \* a processResults call followed result by result
  call                 \* a call of one of the other functions: its arguments and result

\* The variables that follow the inside of one search and the health of the
\* database; the job manager's operations leave them alone.
engineVars == <<search, writeFails, filter, call>>

vars == <<torrentSearchJob, movieEventRepo, qbittorrentService, running, cancelled, wg, mu,
          stopPc, canc, tasks, movies, events, engineVars>>

IdleTask == [pc |-> "idle", movie |-> 0, local |-> NoMovie, found |-> FALSE, dlErr |-> FALSE,
             ret |-> "none", queue |-> <<>>, idx |-> 0, invoked |-> <<>>, errs |-> 0,
             ticker |-> "none"]
IdleCancel == [pc |-> "idle", movie |-> 0, local |-> NoMovie]
IdleSearch == [pc |-> "idle", nq |-> 0, q |-> 0, hasIds |-> FALSE, cat |-> 0,
               calls |-> <<>>, all |-> FALSE, failed |-> TRUE,
               raw |-> 0, kept |-> 0, details |-> <<>>]
IdleFilter == [pc |-> "idle", movie |-> <<>>, results |-> <<>>, i |-> 0, processed |-> <<>>]
IdleCall == [pc |-> "idle", fn |-> "", in |-> <<>>, local |-> <<>>, out |-> <<>>]

IsPeriodic(t) == t \in PeriodicSlots
Live(t) == tasks[t].pc # "idle"
LivePeriodic == {t \in PeriodicSlots : Live(t)}
LiveTriggers == {t \in TriggerSlots : Live(t)}
\* pcs at which a goroutine is inside SearchForMovie
SearchPcs == {"s_call", "s_loaded", "s_searching", "s_download", "s_setdl"}
InSearch(t) == tasks[t].pc \in SearchPcs

\* ------------------------------------------------------ persistence layer
\* MovieRepository.GetByID: the row, or an error when there is none.
GetByID(id) == movies[id]
Exists(ms, id) == ms[id].Status # "absent"

\* MovieRepository.Update: UPDATE ... WHERE id = ?; writes every column of the
\* caller's copy, affects no row (and reports no error) when the row is gone, and
\* returns an error, the row untouched, when the database rejects the write.
Update(ms, id, row) ==
  IF Exists(ms, id) /\ "movies" \notin writeFails THEN [ms EXCEPT ![id] = row] ELSE ms

\* MovieRepository.GetAll: every row, ORDER BY created_at DESC (newest id first).
RECURSIVE AllFrom(_, _)
AllFrom(ms, id) ==
  IF id = 0 THEN <<>>
  ELSE (IF Exists(ms, id) THEN <<[ID |-> id, Status |-> ms[id].Status]>> ELSE <<>>)
       \o AllFrom(ms, id - 1)
GetAll(ms) == AllFrom(ms, NumMovies)

\* MovieEventRepository.Create, guarded by the nil check every call site has; a
\* rejected insert returns an error and appends nothing.
Log(t, seq) ==
  IF movieEventRepo /\ "events" \notin writeFails THEN [events EXCEPT ![t] = @ \o seq]
  ELSE events


\* ------------------------------------------------------------ SearchForMovie
\* Candidates that can be bestResults[0]: processResults keeps a result only if it
\* has a valid magnet or a usable download link. magnet: "valid" (magnet: prefix),
\* "junk" (non-empty, not "null", no magnet: prefix), "null", "" ; link: "url", "null", "".
MagnetKinds == {"valid", "junk", "null", ""}
LinkKinds == {"url", "null", ""}
HasMagnet(c) == c.MagnetURI = "valid"
HasDownloadURL(c) == c.DownloadURL = "url"
Survivors == {c \in [MagnetURI : MagnetKinds, DownloadURL : LinkKinds] :
                HasMagnet(c) \/ HasDownloadURL(c)}

\* downloadTorrent's choice of method for a candidate.
DownloadMethod(c) ==
  IF c.MagnetURI # "" /\ c.MagnetURI # "null" THEN "AddTorrent"
  ELSE IF c.DownloadURL # "" THEN "AddTorrentFile"
  ELSE "none"

\* What the download client answers to an add request: an error, success without a
\* hash (GetTorrentsByTag failed or listed nothing), or success with a hash.
QbtAnswers == {"error", "nohash", "hash"}

\* Start of a SearchForMovie(id) call by goroutine t: its locals are fresh.
CallRec(r, id) ==
  [r EXCEPT !.pc = "s_call", !.movie = id, !.local = NoMovie, !.found = FALSE,
            !.dlErr = FALSE, !.ret = "none"]

\* SearchForMovie_Load that records a search_failed event when the load fails.
SearchForMovie_Load_LogsFailure(t) ==
  /\ tasks[t].pc = "s_call"
  /\ LET id == tasks[t].movie IN
     IF Exists(movies, id)
     THEN /\ tasks' = [tasks EXCEPT ![t].pc = "s_loaded", ![t].local = GetByID(id)]
          /\ events' = events
     ELSE /\ tasks' = [tasks EXCEPT ![t].pc = "s_done", ![t].ret = "err"]
          /\ events' = Log(t, <<EventSearchFailed>>)
  /\ UNCHANGED engineVars
  /\ UNCHANGED <<torrentSearchJob, movieEventRepo, qbittorrentService, running, cancelled, wg,
                 mu, stopPc, canc, movies>>

\* SearchForMovie lines 52-55: load the movie, or return the error.
SearchForMovie_Load(t) ==
  /\ tasks[t].pc = "s_call"
  /\ LET id == tasks[t].movie IN
     IF Exists(movies, id)
     THEN tasks' = [tasks EXCEPT ![t].pc = "s_loaded", ![t].local = GetByID(id)]
     ELSE tasks' = [tasks EXCEPT ![t].pc = "s_done", ![t].ret = "err"]
  /\ UNCHANGED engineVars
  /\ UNCHANGED <<torrentSearchJob, movieEventRepo, qbittorrentService, running, cancelled, wg,
                 mu, stopPc, canc, movies, events>>

\* SearchForMovie_SetSearching that returns the error of a rejected status write.
SearchForMovie_SetSearching_Escalates(t) ==
  /\ tasks[t].pc = "s_loaded"
  /\ LET row == [tasks[t].local EXCEPT !.Status = StatusSearching] IN
     IF "movies" \in writeFails
     THEN /\ tasks' = [tasks EXCEPT ![t].pc = "s_done", ![t].ret = "err"]
          /\ UNCHANGED <<movies, events>>
     ELSE /\ tasks' = [tasks EXCEPT ![t].pc = "s_searching", ![t].local = row]
          /\ movies' = Update(movies, tasks[t].movie, row)
          /\ events' = Log(t, <<EventSearchStarted>>)
  /\ UNCHANGED engineVars
  /\ UNCHANGED <<torrentSearchJob, movieEventRepo, qbittorrentService, running, cancelled, wg,
                 mu, stopPc, canc>>

\* SearchForMovie lines 57-69: status := searching, Update, search_started.
SearchForMovie_SetSearching(t) ==
  /\ tasks[t].pc = "s_loaded"
  /\ LET row == [tasks[t].local EXCEPT !.Status = StatusSearching] IN
     /\ tasks' = [tasks EXCEPT ![t].pc = "s_searching", ![t].local = row]
     /\ movies' = Update(movies, tasks[t].movie, row)
  /\ events' = Log(t, <<EventSearchStarted>>)
  /\ UNCHANGED engineVars
  /\ UNCHANGED <<torrentSearchJob, movieEventRepo, qbittorrentService, running, cancelled, wg,
                 mu, stopPc, canc>>

\* SearchForMovie_Results with the not_found write left out.
SearchForMovie_Results_NoStatus(t) ==
  /\ tasks[t].pc = "s_searching"
  /\ \E found \in BOOLEAN :
       LET goOn == found /\ qbittorrentService IN
       /\ tasks' = [tasks EXCEPT ![t].pc = IF goOn THEN "s_download" ELSE "s_done",
                                 ![t].found = found,
                                 ![t].ret = IF goOn THEN "none" ELSE "nil"]
       /\ movies' = movies
       /\ events' = Log(t, IF ~found THEN <<EventSearchFailed>>
                           ELSE <<EventSearchCompleted, EventTorrentFound>>
                                \o (IF qbittorrentService THEN <<EventDownloadStarted>> ELSE <<>>))
  /\ UNCHANGED engineVars
  /\ UNCHANGED <<torrentSearchJob, movieEventRepo, qbittorrentService, running, cancelled, wg,
                 mu, stopPc, canc>>

\* SearchForMovie lines 71-190: the indexer queries and the ranking give bestResults
\* (empty or not, an input here); then search_completed / not_found + search_failed,
\* torrent_found and, with a download client, the first download_started.
SearchForMovie_Finish(t, found) ==
  /\ tasks[t].pc = "s_searching"
  /\ LET notFound == movieEventRepo /\ ~found
         row == IF notFound THEN [tasks[t].local EXCEPT !.Status = StatusNotFound]
                ELSE tasks[t].local
         goOn == found /\ qbittorrentService
     IN
     /\ tasks' = [tasks EXCEPT ![t].pc = IF goOn THEN "s_download" ELSE "s_done",
                               ![t].found = found,
                               ![t].local = row,
                               ![t].ret = IF goOn THEN "none" ELSE "nil"]
     /\ movies' = IF notFound THEN Update(movies, tasks[t].movie, row) ELSE movies
     /\ events' = Log(t, IF ~found THEN <<EventSearchFailed>>
                         ELSE <<EventSearchCompleted, EventTorrentFound>>
                              \o (IF qbittorrentService THEN <<EventDownloadStarted>> ELSE <<>>))
  /\ UNCHANGED <<torrentSearchJob, movieEventRepo, qbittorrentService, running, cancelled, wg,
                 mu, stopPc, canc>>

\* The same within a call whose query loop is not followed.
SearchForMovie_Outcome(t, found) ==
  /\ SearchForMovie_Finish(t, found)
  /\ UNCHANGED engineVars

\* The same with the outcome of the queries and the ranking as an input.
SearchForMovie_Results(t) == \E found \in BOOLEAN : SearchForMovie_Outcome(t, found)

\* SearchForMovie_Download that marks the movie failed when the download fails.
SearchForMovie_Download_MarksFailed(t) ==
  /\ tasks[t].pc = "s_download"
  /\ \E best \in Survivors, answer \in QbtAnswers :
       LET failed == DownloadMethod(best) = "none" \/ answer = "error"
           row == IF failed THEN [tasks[t].local EXCEPT !.Status = StatusFailed]
                  ELSE tasks[t].local
       IN
       /\ tasks' = [tasks EXCEPT ![t].pc = IF failed THEN "s_done" ELSE "s_setdl",
                                 ![t].dlErr = failed,
                                 ![t].local = row,
                                 ![t].ret = IF failed THEN "nil" ELSE "none"]
       /\ movies' = IF failed \/ answer = "hash"
                    THEN Update(movies, tasks[t].movie, row) ELSE movies
       /\ events' = IF failed THEN Log(t, <<EventDownloadFailed>>) ELSE events
  /\ UNCHANGED engineVars
  /\ UNCHANGED <<torrentSearchJob, movieEventRepo, qbittorrentService, running, cancelled, wg,
                 mu, stopPc, canc>>

\* SearchForMovie lines 192-200 with downloadTorrent (898-930): the add request for
\* the best candidate; on success with a hash the movie is written back with Update
\* (its status column still as this call holds it), on failure download_failed is
\* logged and the call returns nil.
SearchForMovie_Download(t) ==
  /\ tasks[t].pc = "s_download"
  /\ \E best \in Survivors, answer \in QbtAnswers :
       LET failed == DownloadMethod(best) = "none" \/ answer = "error"
           row == tasks[t].local
       IN
       /\ tasks' = [tasks EXCEPT ![t].pc = IF failed THEN "s_done" ELSE "s_setdl",
                                 ![t].dlErr = failed,
                                 ![t].ret = IF failed THEN "nil" ELSE "none"]
       /\ movies' = IF ~failed /\ answer = "hash"
                    THEN Update(movies, tasks[t].movie, row) ELSE movies
       /\ events' = IF failed THEN Log(t, <<EventDownloadFailed>>) ELSE events
  /\ UNCHANGED engineVars
  /\ UNCHANGED <<torrentSearchJob, movieEventRepo, qbittorrentService, running, cancelled, wg,
                 mu, stopPc, canc>>

\* SearchForMovie_SetDownloading that logs the confirmation before the status change.
SearchForMovie_SetDownloading_Swapped(t) ==
  /\ tasks[t].pc = "s_setdl"
  /\ LET row == [tasks[t].local EXCEPT !.Status = StatusDownloading] IN
     /\ tasks' = [tasks EXCEPT ![t].pc = "s_done", ![t].local = row, ![t].ret = "nil"]
     /\ movies' = Update(movies, tasks[t].movie, row)
  /\ events' = Log(t, <<EventDownloadStarted, EventStatusChanged>>)
  /\ UNCHANGED engineVars
  /\ UNCHANGED <<torrentSearchJob, movieEventRepo, qbittorrentService, running, cancelled, wg,
                 mu, stopPc, canc>>

\* SearchForMovie lines 201-221: status := downloading, Update, status_changed and
\* the second download_started; return nil.
SearchForMovie_Mark(t) ==
  /\ tasks[t].pc = "s_setdl"
  /\ LET row == [tasks[t].local EXCEPT !.Status = StatusDownloading] IN
     /\ tasks' = [tasks EXCEPT ![t].pc = "s_done", ![t].local = row, ![t].ret = "nil"]
     /\ movies' = Update(movies, tasks[t].movie, row)
  /\ events' = Log(t, <<EventStatusChanged, EventDownloadStarted>>)
  /\ UNCHANGED <<torrentSearchJob, movieEventRepo, qbittorrentService, running, cancelled, wg,
                 mu, stopPc, canc>>

\* The same within a call whose event details are not followed.
SearchForMovie_SetDownloading(t) ==
  /\ SearchForMovie_Mark(t)
  /\ UNCHANGED engineVars

SearchForMovie(t) ==
  \/ SearchForMovie_Load(t)
  \/ SearchForMovie_SetSearching(t)
  \/ SearchForMovie_Results(t)
  \/ SearchForMovie_Download(t)
  \/ SearchForMovie_SetDownloading(t)


\* --------------------------------------------------------- ProcessMovieQueue
\* The status test of ProcessMovieQueue (line 874).
Eligible(status) == status = StatusWanted \/ status = StatusNotFound

\* The entries of the GetAll snapshot the loop will search: the loop reads nothing
\* of the other entries, so the goroutine keeps the ids of these, in order.
EligibleIds(all) == [i \in 1..Len(SelectSeq(all, LAMBDA e : Eligible(e.Status))) |->
                       SelectSeq(all, LAMBDA e : Eligible(e.Status))[i].ID]

\* The loop of ProcessMovieQueue positioned at entry i of its queue: about to sleep
\* and call SearchForMovie(queue[i]), or past the end.
AtEntry(r, i) ==
  IF i > Len(r.queue)
  THEN [r EXCEPT !.pc = "sweep_end", !.idx = i, !.movie = 0, !.local = NoMovie,
                 !.found = FALSE, !.dlErr = FALSE, !.ret = "none"]
  ELSE [CallRec(r, r.queue[i]) EXCEPT !.idx = i, !.invoked = Append(r.invoked, r.queue[i])]

\* ProcessMovieQueue lines 866-874: GetAll, then on to the first eligible movie.
ProcessMovieQueue_Begin(r, ms) ==
  AtEntry([r EXCEPT !.queue = EligibleIds(GetAll(ms)), !.invoked = <<>>, !.errs = 0], 1)

\* ProcessMovieQueue_Error that returns the error instead of continuing.
ProcessMovieQueue_Error_Aborts(t) ==
  /\ IsPeriodic(t)
  /\ tasks[t].pc = "s_done"
  /\ tasks[t].ret = "err"
  /\ tasks' = [tasks EXCEPT ![t].pc = "sweep_end", ![t].movie = 0, ![t].ret = "none",
                            ![t].errs = @ + 1]
  /\ events' = Log(t, <<EventSearchFailed>>)
  /\ UNCHANGED engineVars
  /\ UNCHANGED <<torrentSearchJob, movieEventRepo, qbittorrentService, running, cancelled, wg,
                 mu, stopPc, canc, movies>>

\* ProcessMovieQueue lines 878-889: SearchForMovie returned an error: the sweep logs
\* a search_failed event of its own.
ProcessMovieQueue_Error(t) ==
  /\ IsPeriodic(t)
  /\ tasks[t].pc = "s_done"
  /\ tasks[t].ret = "err"
  /\ tasks' = [tasks EXCEPT ![t].ret = "logged", ![t].errs = @ + 1]
  /\ events' = Log(t, <<EventSearchFailed>>)
  /\ UNCHANGED engineVars
  /\ UNCHANGED <<torrentSearchJob, movieEventRepo, qbittorrentService, running, cancelled, wg,
                 mu, stopPc, canc, movies>>

\* ProcessMovieQueue_Next that gives up the rest of the sweep once cancelled.
ProcessMovieQueue_Next_StopsOnCancel(t) ==
  /\ IsPeriodic(t)
  /\ tasks[t].pc = "s_done"
  /\ tasks[t].ret \in {"nil", "logged"}
  /\ tasks' = [tasks EXCEPT ![t] = IF cancelled THEN AtEntry(@, Len(@.queue) + 1)
                                   ELSE AtEntry(@, @.idx + 1)]
  /\ events' = [events EXCEPT ![t] = <<>>]
  /\ UNCHANGED engineVars
  /\ UNCHANGED <<torrentSearchJob, movieEventRepo, qbittorrentService, running, cancelled, wg,
                 mu, stopPc, canc, movies>>

\* ProcessMovieQueue lines 872-892: after a call (returned nil, or its error was
\* logged) the loop continues with the next entry.
ProcessMovieQueue_Next(t) ==
  /\ IsPeriodic(t)
  /\ tasks[t].pc = "s_done"
  /\ tasks[t].ret \in {"nil", "logged"}
  /\ tasks' = [tasks EXCEPT ![t] = AtEntry(@, @.idx + 1)]
  /\ events' = [events EXCEPT ![t] = <<>>]
  /\ UNCHANGED engineVars
  /\ UNCHANGED <<torrentSearchJob, movieEventRepo, qbittorrentService, running, cancelled, wg,
                 mu, stopPc, canc, movies>>

\* ------------------------------------------------- runPeriodicTorrentSearch
\* Lines 124-137: with no search job wait for ctx.Done(); else the initial sweep.
runPeriodicTorrentSearch_Begin(t) ==
  /\ tasks[t].pc = "p_start"
  /\ tasks' = [tasks EXCEPT ![t] = IF torrentSearchJob
                                   THEN ProcessMovieQueue_Begin(@, movies)
                                   ELSE [@ EXCEPT !.pc = "p_wait"]]
  /\ UNCHANGED engineVars
  /\ UNCHANGED <<torrentSearchJob, movieEventRepo, qbittorrentService, running, cancelled, wg,
                 mu, stopPc, canc, movies, events>>

\* Lines 128-132: <-jm.ctx.Done(); return (deferred wg.Done).
runPeriodicTorrentSearch_WaitDone(t) ==
  /\ tasks[t].pc = "p_wait"
  /\ cancelled
  /\ tasks' = [tasks EXCEPT ![t] = IdleTask]
  /\ wg' = wg - 1
  /\ UNCHANGED engineVars
  /\ UNCHANGED <<torrentSearchJob, movieEventRepo, qbittorrentService, running, cancelled,
                 mu, stopPc, canc, movies, events>>

\* ProcessMovieQueue returned: after the initial sweep the ticker is created
\* (lines 140-141); the loop is at its select.
runPeriodicTorrentSearch_SweepReturned(t) ==
  /\ tasks[t].pc = "sweep_end"
  /\ tasks' = [tasks EXCEPT ![t] = [IdleTask EXCEPT !.pc = "select", !.ticker = "armed"]]
  /\ events' = [events EXCEPT ![t] = <<>>]
  /\ UNCHANGED engineVars
  /\ UNCHANGED <<torrentSearchJob, movieEventRepo, qbittorrentService, running, cancelled, wg,
                 mu, stopPc, canc, movies>>

\* The 30 minute ticker delivers a tick. Its channel holds one tick, so a tick that
\* falls into a sweep is the same to the loop as one that comes when it is back at
\* its select: the tick is delivered there.
Tick(t) ==
  /\ tasks[t].pc = "select"
  /\ tasks[t].ticker = "armed"
  /\ tasks' = [tasks EXCEPT ![t].ticker = "fired"]
  /\ UNCHANGED engineVars
  /\ UNCHANGED <<torrentSearchJob, movieEventRepo, qbittorrentService, running, cancelled, wg,
                 mu, stopPc, canc, movies, events>>

\* Lines 143-154: select over ctx.Done() and ticker.C; when both are ready Go takes
\* either.
runPeriodicTorrentSearch_Select(t) ==
  /\ tasks[t].pc = "select"
  /\ \/ /\ cancelled
        /\ tasks' = [tasks EXCEPT ![t] = IdleTask]
        /\ wg' = wg - 1
     \/ /\ tasks[t].ticker = "fired"
        /\ tasks' = [tasks EXCEPT ![t] =
                       ProcessMovieQueue_Begin([@ EXCEPT !.ticker = "armed"], movies)]
        /\ wg' = wg
  /\ UNCHANGED engineVars
  /\ UNCHANGED <<torrentSearchJob, movieEventRepo, qbittorrentService, running, cancelled,
                 mu, stopPc, canc, movies, events>>

runPeriodicTorrentSearch(t) ==
  \/ runPeriodicTorrentSearch_Begin(t)
  \/ runPeriodicTorrentSearch_WaitDone(t)
  \/ runPeriodicTorrentSearch_SweepReturned(t)
  \/ runPeriodicTorrentSearch_Select(t)
  \/ ProcessMovieQueue_Error(t)
  \/ ProcessMovieQueue_Next(t)

\* ---------------------------------------------------------------- JobManager
FreePeriodic == {t \in PeriodicSlots : ~Live(t)}
FreeTriggers == {t \in TriggerSlots : ~Live(t)}
Lowest(S) == CHOOSE t \in S : \A u \in S : t <= u

\* JobManager.IsRunning: the flag, read under the read lock.
IsRunning == running

\* Start without the running check.
Start_NoCheck ==
  /\ mu = "free"
  /\ FreePeriodic # {}
  /\ running' = TRUE
  /\ wg' = wg + 1
  /\ tasks' = [tasks EXCEPT ![Lowest(FreePeriodic)] = [IdleTask EXCEPT !.pc = "p_start"]]
  /\ UNCHANGED engineVars
  /\ UNCHANGED <<torrentSearchJob, movieEventRepo, qbittorrentService, cancelled, mu, stopPc,
                 canc, movies, events>>

\* JobManager.Start (lines 33-48), under jm.mu.Lock().
Start ==
  /\ mu = "free"
  /\ IF running
     THEN UNCHANGED <<running, wg, tasks>>
     ELSE /\ FreePeriodic # {}
          /\ running' = TRUE
          /\ wg' = wg + 1
          /\ tasks' = [tasks EXCEPT ![Lowest(FreePeriodic)] = [IdleTask EXCEPT !.pc = "p_start"]]
  /\ UNCHANGED engineVars
  /\ UNCHANGED <<torrentSearchJob, movieEventRepo, qbittorrentService, cancelled, mu, stopPc,
                 canc, movies, events>>

\* Stop without the running check.
Stop_Begin_NoCheck ==
  /\ mu = "free"
  /\ cancelled' = TRUE
  /\ running' = FALSE
  /\ mu' = "W"
  /\ stopPc' = "waiting"
  /\ UNCHANGED engineVars
  /\ UNCHANGED <<torrentSearchJob, movieEventRepo, qbittorrentService, wg, canc, tasks, movies,
                 events>>

\* JobManager.Stop lines 51-61: under jm.mu.Lock(), which it keeps while waiting.
Stop_Begin ==
  /\ mu = "free"
  /\ IF ~running
     THEN UNCHANGED <<running, cancelled, mu, stopPc>>
     ELSE /\ cancelled' = TRUE
          /\ running' = FALSE
          /\ mu' = "W"
          /\ stopPc' = "waiting"
  /\ UNCHANGED engineVars
  /\ UNCHANGED <<torrentSearchJob, movieEventRepo, qbittorrentService, wg, canc, tasks, movies,
                 events>>

\* Stop that returns without waiting for the counter.
Stop_Wait_NoWait ==
  /\ stopPc = "waiting"
  /\ stopPc' = "idle"
  /\ mu' = "free"
  /\ UNCHANGED engineVars
  /\ UNCHANGED <<torrentSearchJob, movieEventRepo, qbittorrentService, running, cancelled, wg,
                 canc, tasks, movies, events>>

\* JobManager.Stop lines 64-66: jm.wg.Wait() returns once the counter is zero, and
\* Stop returns, releasing the lock.
Stop_Wait ==
  /\ stopPc = "waiting"
  /\ wg = 0
  /\ stopPc' = "idle"
  /\ mu' = "free"
  /\ UNCHANGED engineVars
  /\ UNCHANGED <<torrentSearchJob, movieEventRepo, qbittorrentService, running, cancelled, wg,
                 canc, tasks, movies, events>>

\* TriggerTorrentSearchForMovie without the nil check.
TriggerTorrentSearchForMovie_NoNilCheck(id) ==
  /\ FreeTriggers # {}
  /\ wg' = wg + 1
  /\ tasks' = [tasks EXCEPT ![Lowest(FreeTriggers)] = CallRec(IdleTask, id)]
  /\ events' = [events EXCEPT ![Lowest(FreeTriggers)] = <<>>]
  /\ UNCHANGED engineVars
  /\ UNCHANGED <<torrentSearchJob, movieEventRepo, qbittorrentService, running, cancelled, mu,
                 stopPc, canc, movies>>

\* JobManager.TriggerTorrentSearchForMovie (lines 76-89): no lock, no look at
\* running; wg.Add(1) and a goroutine that calls SearchForMovie(movieID).
TriggerTorrentSearchForMovie(id) ==
  /\ IF ~torrentSearchJob
     THEN UNCHANGED <<wg, tasks, events>>
     ELSE /\ FreeTriggers # {}
          /\ wg' = wg + 1
          /\ tasks' = [tasks EXCEPT ![Lowest(FreeTriggers)] = CallRec(IdleTask, id)]
          /\ events' = [events EXCEPT ![Lowest(FreeTriggers)] = <<>>]
  /\ UNCHANGED engineVars
  /\ UNCHANGED <<torrentSearchJob, movieEventRepo, qbittorrentService, running, cancelled, mu,
                 stopPc, canc, movies>>

\* The trigger goroutine after SearchForMovie returned (lines 84-87): the error is
\* logged, the deferred wg.Done() runs.
Trigger_Done(t) ==
  /\ ~IsPeriodic(t)
  /\ tasks[t].pc = "s_done"
  /\ tasks' = [tasks EXCEPT ![t] = IdleTask]
  /\ events' = [events EXCEPT ![t] = <<>>]
  /\ wg' = wg - 1
  /\ UNCHANGED engineVars
  /\ UNCHANGED <<torrentSearchJob, movieEventRepo, qbittorrentService, running, cancelled, mu,
                 stopPc, canc, movies>>

\* JobManager.CancelJobsForMovie lines 92-113, under jm.mu.RLock(): returns at once
\* when not running, with no search job, for an unknown id or for a status other
\* than searching / downloading; else it is about to write its copy as failed.
CancelJobsForMovie_Load(id) ==
  /\ mu = "free"
  /\ canc.pc = "idle"
  /\ IF running /\ torrentSearchJob /\ Exists(movies, id)
        /\ GetByID(id).Status \in {StatusSearching, StatusDownloading}
     THEN /\ mu' = "R"
          /\ canc' = [pc |-> "update", movie |-> id,
                      local |-> [GetByID(id) EXCEPT !.Status = StatusFailed]]
     ELSE UNCHANGED <<mu, canc>>
  /\ UNCHANGED engineVars
  /\ UNCHANGED <<torrentSearchJob, movieEventRepo, qbittorrentService, running, cancelled, wg,
                 stopPc, tasks, movies, events>>

\* JobManager.CancelJobsForMovie lines 114-121: UpdateMovie, then RUnlock.
CancelJobsForMovie_Update ==
  /\ canc.pc = "update"
  /\ movies' = Update(movies, canc.movie, canc.local)
  /\ canc' = IdleCancel
  /\ mu' = "free"
  /\ UNCHANGED engineVars
  /\ UNCHANGED <<torrentSearchJob, movieEventRepo, qbittorrentService, running, cancelled, wg,
                 stopPc, tasks, events>>

\* MovieRepository.Delete (from deleteMovieHandler): the row is gone for good.
Delete(id) ==
  /\ Exists(movies, id)
  /\ movies' = [movies EXCEPT ![id] = NoMovie]
  /\ UNCHANGED engineVars
  /\ UNCHANGED <<torrentSearchJob, movieEventRepo, qbittorrentService, running, cancelled, wg,
                 mu, stopPc, canc, tasks, events>>

\* ------------------------------------------------------------ specification
\* NewJobManager and NewTorrentSearchJob as their callers build them: main() always
\* passes an event repository, and a download client only when one is configured and
\* answers; the manager is built with a search job (main) or with nil
\* (manager_test.go line 295); the movies table holds rows in any status.
InitCommon ==
  /\ running = FALSE
  /\ cancelled = FALSE
  /\ wg = 0
  /\ mu = "free"
  /\ stopPc = "idle"
  /\ canc = IdleCancel
  /\ tasks = [t \in Tasks |-> IdleTask]
  /\ events = [t \in Tasks |-> <<>>]
  /\ movies \in [MovieIds -> [Status : MediaStatus]]
  /\ search = IdleSearch
  /\ filter = IdleFilter
  /\ call = IdleCall
  /\ writeFails = {}

Init ==
  /\ torrentSearchJob \in BOOLEAN
  /\ movieEventRepo = TRUE
  /\ qbittorrentService \in BOOLEAN
  /\ InitCommon

Next ==
  \/ Start
  \/ Stop_Begin
  \/ Stop_Wait
  \/ \E id \in MovieIds : TriggerTorrentSearchForMovie(id)
  \/ \E t \in Tasks : Trigger_Done(t)
  \/ \E id \in MovieIds : CancelJobsForMovie_Load(id)
  \/ CancelJobsForMovie_Update
  \/ \E id \in MovieIds : Delete(id)
  \/ \E t \in Tasks : Tick(t)
  \/ \E t \in Tasks : runPeriodicTorrentSearch(t)
  \/ \E t \in Tasks : SearchForMovie(t)

Spec == Init /\ [][Next]_vars

\* ------------------------------------------- the query loop of SearchForMovie
\* SearchForMovie lines 71-128 call by call, for one call of one goroutine.
MaxQueries == 2         \* queries buildSearchQueries returns (1..4 in the code)

\* movieCategories (line 82).
movieCategories == <<"2000", "2010", "2020", "2030", "2040", "2050", "2060">>

\* What an indexer call gives: an error (results nil), no result, results none of
\* which processResults keeps, results some of which it keeps.
IndexerAnswers == {"err", "empty", "junk", "good"}
\* len(results) > 0
Returned(ans) == ans \in {"junk", "good"}

\* The goroutine whose call is followed.
Searcher == Lowest(TriggerSlots)

managerVars == <<torrentSearchJob, movieEventRepo, qbittorrentService, running, cancelled, wg,
                 mu, stopPc, canc, tasks, movies, events>>

\* The for loop over queries positioned at query i (lines 79-96): the first call of
\* the iteration is the search by ids when the movie has a TMDB or IMDB id, else the
\* first category; past the last query the loop is over.
EnterQuery(s, i) ==
  IF i > s.nq THEN [s EXCEPT !.pc = "done"]
  ELSE [s EXCEPT !.q = i, !.calls = <<>>,
                 !.pc = IF s.hasIds THEN "id" ELSE "cat",
                 !.cat = IF s.hasIds THEN 0 ELSE 1]

\* The record of one indexer call.
Call(kind, cat, ans) == [kind |-> kind, cat |-> cat, ans |-> ans]

\* Line 75: buildSearchQueries gives 1..MaxQueries queries.
Query_Begin ==
  /\ tasks[Searcher].pc = "s_searching"
  /\ search.pc = "idle"
  /\ \E n \in 1..MaxQueries, ids \in BOOLEAN :
       search' = EnterQuery([IdleSearch EXCEPT !.nq = n, !.hasIds = ids], 1)
  /\ UNCHANGED <<managerVars, writeFails, filter, call>>

\* Lines 87-99: SearchMovies by ids in category 2000; with results they are
\* processed and the iteration ends (continue), else on to the categories.
Query_IdSearch ==
  /\ tasks[Searcher].pc = "s_searching"
  /\ search.pc = "id"
  /\ \E ans \in IndexerAnswers :
       search' = [search EXCEPT !.calls = Append(@, Call("id", "2000", ans)),
                                !.failed = @ /\ ans = "err",
                                !.all = @ \/ ans = "good",
                                !.raw = IF Returned(ans) THEN @ + 1 ELSE @,
                                !.kept = IF ans = "good" THEN @ + 1 ELSE @,
                                !.pc = IF Returned(ans) THEN "end" ELSE "cat",
                                !.cat = IF Returned(ans) THEN 0 ELSE 1]
  /\ UNCHANGED <<managerVars, writeFails, filter, call>>

\* Query_Category that goes on to the next category after results too.
Query_Category_NoBreak ==
  /\ tasks[Searcher].pc = "s_searching"
  /\ search.pc = "cat"
  /\ \E ans \in IndexerAnswers :
       search' = [search EXCEPT
                    !.calls = Append(@, Call("category", movieCategories[search.cat], ans)),
                    !.failed = @ /\ ans = "err",
                    !.all = @ \/ ans = "good",
                    !.raw = IF Returned(ans) THEN @ + 1 ELSE @,
                    !.kept = IF ans = "good" THEN @ + 1 ELSE @,
                    !.pc = IF search.cat < Len(movieCategories) THEN "cat"
                           ELSE IF Returned(ans) THEN "end" ELSE "generic",
                    !.cat = IF search.cat < Len(movieCategories) THEN @ + 1 ELSE @]
  /\ UNCHANGED <<managerVars, writeFails, filter, call>>

\* Lines 102-113 and the test of line 116: SearchMovies for the next category; an
\* error or no result goes on to the next category, or to the general search after
\* the last; results break the loop, skip the general search and are processed.
Query_Category ==
  /\ tasks[Searcher].pc = "s_searching"
  /\ search.pc = "cat"
  /\ \E ans \in IndexerAnswers :
       search' = [search EXCEPT
                    !.calls = Append(@, Call("category", movieCategories[search.cat], ans)),
                    !.failed = @ /\ ans = "err",
                    !.all = @ \/ ans = "good",
                    !.raw = IF Returned(ans) THEN @ + 1 ELSE @,
                    !.kept = IF ans = "good" THEN @ + 1 ELSE @,
                    !.pc = IF Returned(ans) THEN "end"
                           ELSE IF search.cat < Len(movieCategories) THEN "cat" ELSE "generic",
                    !.cat = IF ~Returned(ans) /\ search.cat < Len(movieCategories)
                            THEN @ + 1 ELSE @]
  /\ UNCHANGED <<managerVars, writeFails, filter, call>>

\* Query_Generic whose error ends the whole loop.
Query_Generic_Aborts ==
  /\ tasks[Searcher].pc = "s_searching"
  /\ search.pc = "generic"
  /\ \E ans \in IndexerAnswers :
       search' = [search EXCEPT !.calls = Append(@, Call("generic", "2000", ans)),
                                !.failed = @ /\ ans = "err",
                                !.all = @ \/ ans = "good",
                                !.raw = IF Returned(ans) THEN @ + 1 ELSE @,
                                !.kept = IF ans = "good" THEN @ + 1 ELSE @,
                                !.pc = IF ans = "err" THEN "done" ELSE "end"]
  /\ UNCHANGED <<managerVars, writeFails, filter, call>>

\* Lines 116-128: the general search; an error ends the iteration (continue), else
\* what it returned is processed.
Query_Generic ==
  /\ tasks[Searcher].pc = "s_searching"
  /\ search.pc = "generic"
  /\ \E ans \in IndexerAnswers :
       search' = [search EXCEPT !.calls = Append(@, Call("generic", "2000", ans)),
                                !.failed = @ /\ ans = "err",
                                !.all = @ \/ ans = "good",
                                !.raw = IF Returned(ans) THEN @ + 1 ELSE @,
                                !.kept = IF ans = "good" THEN @ + 1 ELSE @,
                                !.pc = "end"]
  /\ UNCHANGED <<managerVars, writeFails, filter, call>>

\* The next iteration of the loop over queries.
Query_Next ==
  /\ tasks[Searcher].pc = "s_searching"
  /\ search.pc = "end"
  /\ search' = EnterQuery(search, search.q + 1)
  /\ UNCHANGED <<managerVars, writeFails, filter, call>>

\* The details of the search_failed event (lines 150-154).
SearchFailedDetails(s) ==
  [search_queries |-> s.nq, total_results_found |-> s.kept]

\* Lines 131-190: selectBestResults keeps a result iff allResults has one; the
\* call goes on with that outcome, and the search_failed event it inserts carries
\* its details.
Query_Return ==
  /\ search.pc = "done"
  /\ SearchForMovie_Finish(Searcher, search.all)
  /\ search' = [search EXCEPT
       !.details = IF ~search.all /\ movieEventRepo /\ "events" \notin writeFails
                   THEN <<SearchFailedDetails(search)>> ELSE @]
  /\ UNCHANGED <<writeFails, filter, call>>

\* One SearchForMovie call, as spawned by TriggerTorrentSearchForMovie(id) on a
\* manager just built, over rows as createMovieHandler leaves them (wanted).
InitCall ==
  /\ torrentSearchJob = TRUE
  /\ movieEventRepo = TRUE
  /\ qbittorrentService \in BOOLEAN
  /\ running = FALSE
  /\ cancelled = FALSE
  /\ wg = 1
  /\ mu = "free"
  /\ stopPc = "idle"
  /\ canc = IdleCancel
  /\ \E id \in MovieIds : tasks = [t \in Tasks |-> IF t = Searcher THEN CallRec(IdleTask, id)
                                                  ELSE IdleTask]
  /\ events = [t \in Tasks |-> <<>>]
  /\ movies = [m \in MovieIds |-> [Status |-> StatusWanted]]
  /\ search = IdleSearch
  /\ filter = IdleFilter
  /\ call = IdleCall

InitQueries == InitCall /\ writeFails = {}

NextQueries ==
  \/ SearchForMovie_Load(Searcher)
  \/ SearchForMovie_SetSearching(Searcher)
  \/ Query_Begin
  \/ Query_IdSearch
  \/ Query_Category
  \/ Query_Generic
  \/ Query_Next
  \/ Query_Return
  \/ SearchForMovie_Download(Searcher)
  \/ SearchForMovie_SetDownloading(Searcher)
  \/ Trigger_Done(Searcher)

SpecQueries == InitQueries /\ [][NextQueries]_vars

\* ---------------------------------------------- one call with failing writes
\* The tables SearchForMovie writes.
Tables == {"movies", "events"}

\* The database begins or ceases to reject the writes to a table (locked, full,
\* read-only), at any moment of the call.
WriteFault ==
  /\ \E tbl \in Tables :
       writeFails' = IF tbl \in writeFails THEN writeFails \ {tbl} ELSE writeFails \cup {tbl}
  /\ UNCHANGED <<managerVars, search, filter, call>>

InitWrites == InitCall /\ writeFails \in SUBSET Tables

NextWrites ==
  \/ SearchForMovie_Load(Searcher)
  \/ SearchForMovie_SetSearching(Searcher)
  \/ SearchForMovie_Results(Searcher)
  \/ SearchForMovie_Download(Searcher)
  \/ SearchForMovie_SetDownloading(Searcher)
  \/ Trigger_Done(Searcher)
  \/ WriteFault

SpecWrites == InitWrites /\ [][NextWrites]_vars

\* ------------------------------------------------------------- processResults
\* Strings are sequences of one-character strings; the characters are ASCII.
LowerCase == <<"a", "b", "c", "d", "e", "f", "g", "h", "i", "j", "k", "l", "m",
               "n", "o", "p", "q", "r", "s", "t", "u", "v", "w", "x", "y", "z">>
UpperCase == <<"A", "B", "C", "D", "E", "F", "G", "H", "I", "J", "K", "L", "M",
               "N", "O", "P", "Q", "R", "S", "T", "U", "V", "W", "X", "Y", "Z">>

\* strings.ToUpper
ToUpperChar(c) ==
  IF \E k \in 1..Len(LowerCase) : LowerCase[k] = c
  THEN UpperCase[CHOOSE k \in 1..Len(LowerCase) : LowerCase[k] = c]
  ELSE c
ToUpper(s) == [k \in 1..Len(s) |-> ToUpperChar(s[k])]

\* strings.Contains: substr occurs in s at some position
OccursAt(s, substr, k) ==
  /\ k + Len(substr) - 1 <= Len(s)
  /\ \A j \in 1..Len(substr) : s[k + j - 1] = substr[j]
Contains(s, substr) == \E k \in 1..(Len(s) + 1) : OccursAt(s, substr, k)

\* strings.Fields: the maximal runs of non-space characters, in order
RECURSIVE FieldsFrom(_, _, _)
FieldsFrom(s, k, word) ==
  IF k > Len(s) THEN (IF word = <<>> THEN <<>> ELSE <<word>>)
  ELSE IF s[k] = " "
       THEN (IF word = <<>> THEN <<>> ELSE <<word>>) \o FieldsFrom(s, k + 1, <<>>)
       ELSE FieldsFrom(s, k + 1, Append(word, s[k]))
Fields(s) == FieldsFrom(s, 1, <<>>)

\* isLowQualityRelease (the caller passes the upper-cased title)
lowQualityMarkers ==
  << <<"C", "A", "M">>, <<"T", "S">>, <<"T", "E", "L", "E", "S", "Y", "N", "C">>,
     <<"H", "D", "C", "A", "M">>, <<"H", "D", "T", "S">>, <<"T", "C">>,
     <<"T", "E", "L", "E", "C", "I", "N", "E">>,
     <<"W", "O", "R", "K", "P", "R", "I", "N", "T">>, <<"W", "P">>,
     <<"S", "C", "R", "E", "E", "N", "E", "R">>, <<"S", "C", "R">>,
     <<"D", "V", "D", "S", "C", "R">>, <<"B", "D", "S", "C", "R">>,
     <<"K", "O", "R", "S", "U", "B">>, <<"H", "C">>,
     <<"H", "A", "R", "D", "C", "O", "D", "E", "D">>,
     <<"H", "A", "R", "D", "S", "U", "B">>, <<"R", "5">>, <<"R", "6">> >>
\* isLowQualityRelease that looks for the first three markers only.
isLowQualityRelease_CamOnly(title) ==
  \E k \in 1..3 : Contains(title, lowQualityMarkers[k])

isLowQualityRelease(title) ==
  \E k \in 1..Len(lowQualityMarkers) : Contains(title, lowQualityMarkers[k])

\* isRelevantTitle
commonWords ==
  { <<"T", "H", "E">>, <<"A">>, <<"A", "N">>, <<"O", "F">>, <<"A", "N", "D">>, <<"O", "R">>,
    <<"B", "U", "T">>, <<"I", "N">>, <<"O", "N">>, <<"A", "T">>, <<"T", "O">>,
    <<"F", "O", "R">>, <<"A", "S">>, <<"B", "Y">> }
IsSignificant(word) == word \notin commonWords /\ Len(word) > 2
max(a, b) == IF a > b THEN a ELSE b
isRelevantTitle_Half(torrentTitle, movieTitle) ==
  LET tt == ToUpper(torrentTitle)
      movieWords == Fields(ToUpper(movieTitle))
      significantWords == SelectSeq(movieWords, IsSignificant)
      matchedWords == Cardinality({k \in 1..Len(significantWords) :
                                     Contains(tt, significantWords[k])})
  IN IF Len(significantWords) = 0
     THEN \E k \in 1..Len(movieWords) :
            Len(movieWords[k]) > 2 /\ Contains(tt, movieWords[k])
     ELSE IF Len(significantWords) <= 2
          THEN matchedWords >= 1
          ELSE matchedWords >= max(1, Len(significantWords) \div 2)
isRelevantTitle(torrentTitle, movieTitle) ==
  LET tt == ToUpper(torrentTitle)
      movieWords == Fields(ToUpper(movieTitle))
      significantWords == SelectSeq(movieWords, IsSignificant)
      matchedWords == Cardinality({k \in 1..Len(significantWords) :
                                     Contains(tt, significantWords[k])})
  IN IF Len(significantWords) = 0
     THEN \E k \in 1..Len(movieWords) :
            Len(movieWords[k]) > 2 /\ Contains(tt, movieWords[k])
     ELSE IF Len(significantWords) <= 2
          THEN matchedWords >= 1
          ELSE matchedWords >= max(1, (Len(significantWords) * 3) \div 10)

\* A size in bytes (int64) as whole MiB plus remaining bytes, B < 2^20: the byte
\* count of 100 GiB is beyond the integers of the model checker.
Bytes(mib, b) == [MiB |-> mib, B |-> b]
Less(x, y) == x.MiB < y.MiB \/ (x.MiB = y.MiB /\ x.B < y.B)
MinSize == Bytes(100, 0)             \* 100*1024*1024
MaxSize == Bytes(100 * 1024, 0)      \* 100*1024*1024*1024

\* The TorrentResult built from a raw result (Quality and Score left out).
TorrentResult(result) ==
  [Title |-> result.Title, Size |-> result.Size, Seeders |-> result.Seeders,
   MagnetURI |-> result.MagnetURI, DownloadURL |-> result.Link]

\* The body of the loop for one raw result: TRUE when it reaches the append.
processResults_Keeps_StrictMin(result, movieTitle) ==
  LET title == ToUpper(result.Title)
      hasMagnet == result.MagnetURI = "valid"
      hasDownloadURL == result.Link = "url"
  IN /\ ~(result.Seeders = 0)
     /\ ~isLowQualityRelease(title)
     /\ ~(~hasMagnet /\ ~hasDownloadURL)
     /\ ~(Less(result.Size, MinSize) \/ result.Size = MinSize)
     /\ ~Less(MaxSize, result.Size)
     /\ isRelevantTitle(title, ToUpper(movieTitle))
processResults_Keeps(result, movieTitle) ==
  LET title == ToUpper(result.Title)
      hasMagnet == result.MagnetURI = "valid"
      hasDownloadURL == result.Link = "url"
  IN /\ ~(result.Seeders = 0)
     /\ ~isLowQualityRelease(title)
     /\ ~(~hasMagnet /\ ~hasDownloadURL)
     /\ ~Less(result.Size, MinSize)
     /\ ~Less(MaxSize, result.Size)
     /\ isRelevantTitle(title, ToUpper(movieTitle))

\* One iteration of the loop over the raw results.
processResults_Next ==
  /\ filter.pc = "run"
  /\ filter.i <= Len(filter.results)
  /\ filter' = [filter EXCEPT
       !.i = @ + 1,
       !.processed = IF processResults_Keeps(filter.results[filter.i], filter.movie)
                     THEN Append(@, TorrentResult(filter.results[filter.i]))
                     ELSE @]
  /\ UNCHANGED <<managerVars, search, writeFails, call>>

processResults_Return ==
  /\ filter.pc = "run"
  /\ filter.i > Len(filter.results)
  /\ filter' = [filter EXCEPT !.pc = "done"]
  /\ UNCHANGED <<managerVars, search, writeFails, call>>

\* Inputs of the call: up to MaxResults raw results, each differing from a good
\* result in at most MaxDeviations fields.
MaxResults == 2
MaxDeviations == 2
Jaws == <<"J", "a", "w", "s">>
TheThing == <<"T", "h", "e", " ", "T", "h", "i", "n", "g">>
Cats == <<"C", "a", "t", "s">>
MovieTitles == {Jaws, TheThing, Cats}
ResultTitles ==
  { <<"J", "a", "w", "s", " ", "1", "9", "7", "5">>,
    <<"j", "a", "w", "s", " ", "n", "i", "g", "h", "t", "s">>,
    <<"T", "h", "e", " ", "T", "h", "i", "n", "g", " ", "1", "9", "8", "2">>,
    <<"T", "h", "i", "n", "g", " ", "H", "D", "C", "A", "M">>,
    <<"C", "a", "t", "s", " ", "2", "0", "1", "9">> }
ResultSizes == {Bytes(99, 1048575), Bytes(100, 0), Bytes(700, 0),
                Bytes(100 * 1024, 0), Bytes(100 * 1024, 1)}
GoodResult == [Title |-> <<"J", "a", "w", "s", " ", "1", "9", "7", "5">>, Seeders |-> 3,
               MagnetURI |-> "valid", Link |-> "", Size |-> Bytes(700, 0)]
RawResults ==
  {r \in [Title : ResultTitles, Seeders : {0, 3}, MagnetURI : MagnetKinds,
          Link : LinkKinds, Size : ResultSizes] :
     Cardinality({f \in DOMAIN GoodResult : r[f] # GoodResult[f]}) <= MaxDeviations}
RawLists == UNION {[1..n -> RawResults] : n \in 0..MaxResults}

InitFilter ==
  /\ torrentSearchJob = TRUE
  /\ movieEventRepo = TRUE
  /\ qbittorrentService = TRUE
  /\ running = FALSE
  /\ cancelled = FALSE
  /\ wg = 0
  /\ mu = "free"
  /\ stopPc = "idle"
  /\ canc = IdleCancel
  /\ tasks = [t \in Tasks |-> IdleTask]
  /\ events = [t \in Tasks |-> <<>>]
  /\ movies = [m \in MovieIds |-> [Status |-> StatusSearching]]
  /\ search = IdleSearch
  /\ writeFails = {}
  /\ filter \in [pc : {"run"}, movie : MovieTitles, results : RawLists, i : {1},
                 processed : {<<>>}]
  /\ call = IdleCall

NextFilter ==
  \/ processResults_Next
  \/ processResults_Return

SpecFilter == InitFilter /\ [][NextFilter]_vars

\* ------------------------------------------------------------ isRelevantTitle
\* A call of a function of the search job on its own: nothing else runs.
InitPure ==
  /\ torrentSearchJob = TRUE
  /\ movieEventRepo = TRUE
  /\ qbittorrentService = TRUE
  /\ running = FALSE
  /\ cancelled = FALSE
  /\ wg = 0
  /\ mu = "free"
  /\ stopPc = "idle"
  /\ canc = IdleCancel
  /\ tasks = [t \in Tasks |-> IdleTask]
  /\ events = [t \in Tasks |-> <<>>]
  /\ movies = [m \in MovieIds |-> [Status |-> StatusSearching]]
  /\ search = IdleSearch
  /\ writeFails = {}
  /\ filter = IdleFilter

\* The call returns: its result replaces the arguments' pending state.
Returns(fn, out) ==
  /\ call.pc = "call"
  /\ call.fn = fn
  /\ call' = [call EXCEPT !.pc = "done", !.out = out]
  /\ UNCHANGED <<managerVars, search, writeFails, filter>>

\* strings.Join(words, " ")
RECURSIVE JoinWords(_)
JoinWords(words) ==
  IF Len(words) = 0 THEN <<>>
  ELSE IF Len(words) = 1 THEN words[1]
  ELSE words[1] \o <<" ">> \o JoinWords(Tail(words))

\* Movie titles: every title of up to MaxTitleWords words of TitleWords, and two
\* longer ones with three and with seven significant words.
MaxTitleWords == 2
TitleWords == {<<"T", "h", "e">>, <<"O", "f">>, <<"U", "p">>, <<"J", "a", "w", "s">>}
ThreeWords == <<"R", "e", "d", " ", "B", "i", "g", " ", "C", "a", "t">>
SevenWords == <<"O", "n", "e", " ", "T", "w", "o", " ", "S", "i", "x", " ", "T", "e", "n", " ", "R", "e", "d", " ", "B", "i", "g", " ", "C", "a", "t">>
RelevanceMovies ==
  {JoinWords(ws) : ws \in UNION {[1..n -> TitleWords] : n \in 1..MaxTitleWords}}
    \cup {ThreeWords, SevenWords}
RelevanceTitles ==
  {<<"J", "A", "W", "S", " ", "1", "9", "7", "5">>, <<"j", "a", "w", "s", ".", "1", "9", "7", "5", ".", "1", "0", "8", "0", "p">>, <<"x", "J", "a", "W", "s", "x">>, <<"U", "n", "r", "e", "l", "a", "t", "e", "d", " ", "F", "i", "l", "m", " ", "2", "0", "2", "0">>,
   <<"B", "r", "o", "t", "h", "e", "r", " ", "2", "0", "0", "0">>, <<"S", "o", "u", "p", " ", "o", "f", " ", "t", "h", "e", " ", "d", "a", "y">>, <<"o", "n", "e", " ", "2", "0", "2", "0">>, <<"o", "n", "e", " ", "t", "w", "o", " ", "2", "0", "2", "0">>,
   <<"b", "i", "g", " ", "c", "a", "t", "s">>, <<>>}

isRelevantTitle_Call ==
  Returns("isRelevantTitle", isRelevantTitle(call.in.torrentTitle, call.in.movieTitle))

InitRelevance ==
  /\ InitPure
  /\ call \in [pc : {"call"}, fn : {"isRelevantTitle"},
               in : [torrentTitle : RelevanceTitles, movieTitle : RelevanceMovies],
               local : {<<>>}, out : {<<>>}]

NextRelevance == isRelevantTitle_Call

SpecRelevance == InitRelevance /\ [][NextRelevance]_vars

\* ---------------------------------------------------------- selectBestResults
LowerOf(c) ==
  IF \E k \in 1..Len(UpperCase) : UpperCase[k] = c
  THEN LowerCase[CHOOSE k \in 1..Len(UpperCase) : UpperCase[k] = c]
  ELSE c
\* strings.ToLower
ToLower(s) == [k \in 1..Len(s) |-> LowerOf(s[k])]

\* strings.TrimSpace
RECURSIVE TrimSpace(_)
TrimSpace(s) ==
  IF Len(s) = 0 THEN s
  ELSE IF s[1] = " " THEN TrimSpace(Tail(s))
  ELSE IF s[Len(s)] = " " THEN TrimSpace(SubSeq(s, 1, Len(s) - 1))
  ELSE s

\* The first loop: seen is one map for content hashes and title keys alike.
RECURSIVE Unique(_, _, _, _)
Unique(results, k, seen, unique) ==
  IF k > Len(results) THEN unique
  ELSE LET result == results[k]
           titleKey == ToLower(TrimSpace(result.Title))
       IN IF result.InfoHash # <<>> /\ result.InfoHash \notin seen
          THEN Unique(results, k + 1, seen \cup {result.InfoHash}, Append(unique, result))
          ELSE IF result.InfoHash = <<>> /\ titleKey \notin seen
               THEN Unique(results, k + 1, seen \cup {titleKey}, Append(unique, result))
               ELSE Unique(results, k + 1, seen, unique)

\* The comparison handed to sort.Slice.
less_SeedersFirst(a, b) ==
  IF a.Score # b.Score THEN a.Score > b.Score
  ELSE a.Seeders > b.Seeders
less(a, b) ==
  IF a.Score # b.Score THEN a.Score > b.Score
  ELSE IF (a.MagnetURI = "valid") # (b.MagnetURI = "valid") THEN a.MagnetURI = "valid"
  ELSE a.Seeders > b.Seeders

\* sort.Slice is not stable: it may leave the entries of S in any order in which no
\* entry stands after one it is less than.
RECURSIVE Orders(_, _)
Orders(unique, S) ==
  IF S = {} THEN {<<>>}
  ELSE UNION {{<<unique[x]>> \o o : o \in Orders(unique, S \ {x})} :
                x \in {y \in S : \A z \in S : ~less(unique[z], unique[y])}}

TopResults == 10

selectBestResults_Empty ==
  /\ Len(call.in) = 0
  /\ Returns("selectBestResults", call.in)

selectBestResults_Dedupe ==
  /\ call.pc = "call"
  /\ call.fn = "selectBestResults"
  /\ Len(call.in) # 0
  /\ call' = [call EXCEPT !.pc = "sort",
                          !.local = [unique |-> Unique(call.in, 1, {}, <<>>), sorted |-> <<>>]]
  /\ UNCHANGED <<managerVars, search, writeFails, filter>>

selectBestResults_Sort ==
  /\ call.pc = "sort"
  /\ \E o \in Orders(call.local.unique, 1..Len(call.local.unique)) :
       call' = [call EXCEPT !.pc = "return", !.local.sorted = o]
  /\ UNCHANGED <<managerVars, search, writeFails, filter>>

selectBestResults_Return ==
  /\ call.pc = "return"
  /\ call' = [call EXCEPT !.pc = "done",
                          !.out = IF Len(call.local.sorted) > TopResults
                                  THEN SubSeq(call.local.sorted, 1, TopResults)
                                  ELSE call.local.sorted]
  /\ UNCHANGED <<managerVars, search, writeFails, filter>>

\* The accumulated pool: up to MaxPool candidates, alone or followed by TopResults
\* further candidates with hashes of their own.
MaxPool == 2
Digits == <<"0", "1", "2", "3", "4", "5", "6", "7", "8", "9">>
Candidates ==
  [Title : {<<"J", "a", "w", "s">>, <<" ", "j", "a", "w", "s", " ">>, <<"A", "B">>}, InfoHash : {<<>>, <<"a", "b">>, <<"c", "d">>},
   Score : {1, 2}, MagnetURI : {"valid", "junk"}, Seeders : {1, 2}]
Further ==
  [k \in 1..TopResults |->
     [Title |-> <<"J", "a", "w", "s">>, InfoHash |-> <<"f", Digits[k]>>, Score |-> 1,
      MagnetURI |-> "valid", Seeders |-> 10 + k]]
Pools ==
  {p \o f : p \in UNION {[1..n -> Candidates] : n \in 0..MaxPool}, f \in {<<>>, Further}}

InitSelect ==
  /\ InitPure
  /\ call \in [pc : {"call"}, fn : {"selectBestResults"}, in : Pools,
               local : {<<>>}, out : {<<>>}]

NextSelect ==
  \/ selectBestResults_Empty
  \/ selectBestResults_Dedupe
  \/ selectBestResults_Sort
  \/ selectBestResults_Return

SpecSelect == InitSelect /\ [][NextSelect]_vars

\* --------------------------------------------------------- buildSearchQueries
\* strings.ReplaceAll: the occurrences of old, left to right and not overlapping
RECURSIVE ReplaceFrom(_, _, _, _)
ReplaceFrom(s, k, old, new) ==
  IF k > Len(s) THEN <<>>
  ELSE IF OccursAt(s, old, k) THEN new \o ReplaceFrom(s, k + Len(old), old, new)
  ELSE <<s[k]>> \o ReplaceFrom(s, k + 1, old, new)
ReplaceAll(s, old, new) == ReplaceFrom(s, 1, old, new)

\* strings.HasPrefix
HasPrefix(s, prefix) == OccursAt(s, prefix, 1)

\* the %d of fmt.Sprintf, for a year > 0
RECURSIVE FormatInt(_)
FormatInt(n) ==
  IF n < 10 THEN <<Digits[n + 1]>>
  ELSE FormatInt(n \div 10) \o <<Digits[(n % 10) + 1]>>
\* fmt.Sprintf("%s %d", title, year)
TitleYear(title, year) == title \o <<" ">> \o FormatInt(year)

baseTitleOf(title) == TrimSpace(title)
cleanTitleOf(title) ==
  TrimSpace(ReplaceAll(ReplaceAll(ReplaceAll(baseTitleOf(title), <<":">>, <<" ">>),
                                  <<"-">>, <<" ">>),
                       <<" ", " ">>, <<" ">>))

buildSearchQueries_AlwaysBare(title, year) ==
  LET baseTitle == baseTitleOf(title)
      cleanTitle == cleanTitleOf(title)
      primary == IF year > 0 THEN <<TitleYear(baseTitle, year)>> ELSE <<>>
      clean == IF cleanTitle # baseTitle /\ year > 0
               THEN <<TitleYear(cleanTitle, year)>> ELSE <<>>
      withoutThe == IF HasPrefix(ToUpper(baseTitle), <<"T", "H", "E", " ">>) /\ year > 0
                    THEN <<TitleYear(TrimSpace(SubSeq(baseTitle, 5, Len(baseTitle))), year)>>
                    ELSE <<>>
      queries == primary \o clean \o withoutThe
  IN Append(queries, baseTitle)
buildSearchQueries(title, year) ==
  LET baseTitle == baseTitleOf(title)
      cleanTitle == cleanTitleOf(title)
      primary == IF year > 0 THEN <<TitleYear(baseTitle, year)>> ELSE <<>>
      clean == IF cleanTitle # baseTitle /\ year > 0
               THEN <<TitleYear(cleanTitle, year)>> ELSE <<>>
      withoutThe == IF HasPrefix(ToUpper(baseTitle), <<"T", "H", "E", " ">>) /\ year > 0
                    THEN <<TitleYear(TrimSpace(SubSeq(baseTitle, 5, Len(baseTitle))), year)>>
                    ELSE <<>>
      queries == primary \o clean \o withoutThe
  IN IF Len(queries) < 3 THEN Append(queries, baseTitle) ELSE queries

buildSearchQueries_Call ==
  /\ call.pc = "call"
  /\ call.fn = "buildSearchQueries"
  /\ call' = [call EXCEPT !.pc = "done",
                          !.local = [baseTitle |-> baseTitleOf(call.in.Title),
                                     cleanTitle |-> cleanTitleOf(call.in.Title)],
                          !.out = buildSearchQueries(call.in.Title, call.in.Year)]
  /\ UNCHANGED <<managerVars, search, writeFails, filter>>

\* Titles of one word or of two words around a separator, and a padded one; the
\* year is absent (0) or present.
QueryWords == {<<"T", "h", "e">>, <<"t", "h", "e">>, <<"M", "a", "t", "r", "i", "x">>, <<"A">>}
Separators == {<<" ">>, <<"-">>, <<":">>, <<" ", "-", " ">>, <<" ", ":", " ">>, <<" ", " ">>}
QueryTitles ==
  QueryWords \cup {a \o sep \o b : a \in QueryWords, sep \in Separators, b \in QueryWords}
    \cup {<<" ", "J", "a", "w", "s", " ">>, <<"T", "h", "e", " ", "A", "-", "B">>}
QueryYears == {0, 1999}

InitBuild ==
  /\ InitPure
  /\ call \in [pc : {"call"}, fn : {"buildSearchQueries"},
               in : [Title : QueryTitles, Year : QueryYears], local : {<<>>}, out : {<<>>}]

NextBuild == buildSearchQueries_Call

SpecBuild == InitBuild /\ [][NextBuild]_vars

\* ------------------------------------------------------------- downloadTorrent
\* downloadTorrent on its own, for any candidate: the client answers the add request
\* with an error, with no hash or with the hash "h"; movieRepo.Update succeeds or not.
NoSourceError == "no magnet URI or download URL available"

downloadTorrent_NoSource ==
  /\ DownloadMethod(call.in.result) = "none"
  /\ Returns("downloadTorrent", NoSourceError)

downloadTorrent_Add ==
  /\ call.pc = "call"
  /\ call.fn = "downloadTorrent"
  /\ DownloadMethod(call.in.result) # "none"
  /\ call' = [call EXCEPT
       !.pc = "added",
       !.local.requests =
          Append(@, [method |-> DownloadMethod(call.in.result),
                     arg |-> IF DownloadMethod(call.in.result) = "AddTorrent"
                             THEN call.in.result.MagnetURI
                             ELSE call.in.result.DownloadURL]),
       !.local.torrentHash = IF call.in.answer = "hash" THEN "h" ELSE "",
       !.local.err = (call.in.answer = "error")]
  /\ UNCHANGED <<managerVars, search, writeFails, filter>>

downloadTorrent_Fail ==
  /\ call.pc = "added"
  /\ call.local.err
  /\ call' = [call EXCEPT !.pc = "done", !.out = "client error"]
  /\ UNCHANGED <<managerVars, search, writeFails, filter>>

downloadTorrent_Store_Escalates ==
  /\ call.pc = "added"
  /\ ~call.local.err
  /\ call' = [call EXCEPT
       !.pc = "done",
       !.local.row = IF call.local.torrentHash # "" /\ call.in.update = "ok"
                     THEN call.local.torrentHash ELSE @,
       !.out = IF call.local.torrentHash # "" /\ call.in.update # "ok"
               THEN "update error" ELSE "nil"]
  /\ UNCHANGED <<managerVars, search, writeFails, filter>>
downloadTorrent_Store ==
  /\ call.pc = "added"
  /\ ~call.local.err
  /\ call' = [call EXCEPT
       !.pc = "done",
       !.local.row = IF call.local.torrentHash # "" /\ call.in.update = "ok"
                     THEN call.local.torrentHash ELSE @,
       !.out = "nil"]
  /\ UNCHANGED <<managerVars, search, writeFails, filter>>

InitDownload ==
  /\ InitPure
  /\ call \in [pc : {"call"}, fn : {"downloadTorrent"},
               in : [result : [MagnetURI : MagnetKinds, DownloadURL : LinkKinds],
                     answer : QbtAnswers, update : {"ok", "error"}],
               local : {[requests |-> <<>>, torrentHash |-> "", err |-> FALSE, row |-> ""]},
               out : {<<>>}]

NextDownload ==
  \/ downloadTorrent_NoSource
  \/ downloadTorrent_Add
  \/ downloadTorrent_Fail
  \/ downloadTorrent_Store

SpecDownload == InitDownload /\ [][NextDownload]_vars

\* ----------------------------------------------------------------- scoreResult
\* strings.Contains(title, m) for one of several m
ContainsAny(title, markers) == \E m \in markers : Contains(title, m)

scoreReleaseType(title) ==
  IF Contains(title, <<"R", "E", "M", "U", "X">>) THEN 100
  ELSE IF ContainsAny(title, {<<"B", "L", "U", "R", "A", "Y">>, <<"B", "D", "R">>, <<"B", "D", "2", "5">>, <<"B", "D", "5", "0">>}) THEN 80
  ELSE IF ContainsAny(title, {<<"W", "E", "B", "-", "D", "L">>, <<"W", "E", "B", "D", "L">>}) THEN 70
  ELSE IF ContainsAny(title, {<<"W", "E", "B", "R", "I", "P">>, <<"W", "E", "B", " ", "R", "I", "P">>}) THEN 60
  ELSE IF ContainsAny(title, {<<"B", "R", "R", "I", "P">>, <<"B", "L", "U", "R", "A", "Y", " ", "R", "I", "P">>}) THEN 55
  ELSE IF ContainsAny(title, {<<"D", "V", "D", "R", "I", "P">>, <<"D", "V", "D", " ", "R", "I", "P">>}) THEN 45
  ELSE IF ContainsAny(title, {<<"H", "D", "T", "V">>, <<"P", "D", "T", "V">>}) THEN 40
  ELSE IF ContainsAny(title, {<<"D", "V", "D", "S", "C", "R">>, <<"S", "C", "R", "E", "E", "N", "E", "R">>}) THEN 30
  ELSE 0

scoreQuality(title) ==
  IF ContainsAny(title, {<<"2", "1", "6", "0", "P">>, <<"4", "K">>, <<"U", "H", "D">>}) THEN 35
  ELSE IF Contains(title, <<"1", "0", "8", "0", "P">>) THEN 40
  ELSE IF Contains(title, <<"7", "2", "0", "P">>) THEN 30
  ELSE IF ContainsAny(title, {<<"4", "8", "0", "P">>, <<"S", "D">>}) THEN 10
  ELSE 0

scoreEncoding(title) ==
  IF ContainsAny(title, {<<"X", "2", "6", "5">>, <<"H", "E", "V", "C">>, <<"H", "2", "6", "5">>}) THEN 15
  ELSE IF ContainsAny(title, {<<"X", "2", "6", "4">>, <<"H", "2", "6", "4">>}) THEN 10
  ELSE 0

scoreAudio(title) ==
  IF ContainsAny(title, {<<"A", "T", "M", "O", "S">>, <<"T", "R", "U", "E", "H", "D">>}) THEN 20
  ELSE IF ContainsAny(title, {<<"D", "T", "S", "-", "H", "D">>, <<"D", "T", "S", "H", "D">>}) THEN 15
  ELSE IF ContainsAny(title, {<<"D", "T", "S">>, <<"D", "D", "5", ".", "1">>, <<"A", "C", "3">>}) THEN 10
  ELSE IF Contains(title, <<"A", "A", "C">>) THEN 5
  ELSE 0

trustedGroups ==
  << <<"S", "P", "A", "R", "K", "S">>, <<"F", "G", "T">>, <<"C", "M", "R", "G">>, <<"E", "V", "O">>, <<"R", "A", "R", "B", "G">>, <<"Y", "T", "S">>, <<"Y", "I", "F", "Y">>,
     <<"P", "S", "A">>, <<"I", "O", "N", "1", "0">>, <<"A", "M", "Z", "N">>, <<"N", "T", "G">>, <<"F", "L", "U", "X">>, <<"T", "O", "M", "M", "Y">>, <<"D", "E", "F", "L", "A", "T", "E">>,
     <<"Q", "O", "Q">>, <<"T", "E", "H", "P", "A", "R", "A", "D", "O", "X">>, <<"G", "E", "C", "K", "O", "S">>, <<"R", "O", "V", "E", "R", "S">>, <<"D", "R", "O", "N", "E", "S">>, <<"S", "T", "U", "T", "T", "E", "R", "S", "H", "I", "T">>,
     <<"K", "I", "N", "G", "D", "O", "M">>, <<"M", "Z", "A", "B", "I">>, <<"T", "a", "y", "T", "O">>, <<"W", "4", "F">>, <<"L", "A", "Z", "Y">>, <<"Z", "Q">>, <<"K", "R", "a", "L", "i", "M", "a", "R", "K", "o">>,
     <<"P", "b", "K">>, <<"T", "A", "o", "E">>, <<"U", "T", "R">>, <<"M", "T", "e", "a", "m">>, <<"C", "H", "D">>, <<"W", "i", "K", "i">>, <<"T", "D", "D">>, <<"T", "i", "g", "o", "l", "e">>,
     <<"J", "o", "y">>, <<"P", "a", "h", "e">>, <<"Q", "x", "R">>, <<"H", "Q", "M", "U", "X">>, <<"d", "3", "g">>, <<"p", "l", "a", "y", "B", "D">>, <<"H", "D", "H">>, <<"i", "f", "i">> >>
topTierGroups == {<<"S", "P", "A", "R", "K", "S">>, <<"F", "G", "T">>, <<"R", "A", "R", "B", "G">>, <<"P", "S", "A">>, <<"N", "T", "G">>}
highQualityGroups == {<<"E", "V", "O">>, <<"C", "M", "R", "G">>, <<"I", "O", "N", "1", "0">>, <<"Q", "O", "Q">>}
\* the first listed group the title contains decides
scoreTrustedGroups(title) ==
  LET titleUpper == ToUpper(title)
      hits == {k \in 1..Len(trustedGroups) : Contains(titleUpper, ToUpper(trustedGroups[k]))}
  IN IF hits = {} THEN 0
     ELSE LET group == trustedGroups[CHOOSE k \in hits : \A h \in hits : k <= h]
          IN IF group \in topTierGroups THEN 25
             ELSE IF group \in highQualityGroups THEN 20
             ELSE 15

\* float64(size) / (1024*1024*1024) compared with a constant, on whole bytes
GiB(n) == Bytes(n * 1024, 0)
AtLeast(size, bound) == ~Less(size, bound)
AtMost(size, bound) == ~Less(bound, size)
HalfGB == Bytes(512, 0)
OneAndHalfGB == Bytes(1536, 0)
SevenTenthsGB == Bytes(716, 838861)    \* the least size with sizeGB >= 0.7
scoreFitSize(size, title) ==
  LET fit ==
        IF ContainsAny(title, {<<"2", "1", "6", "0", "P">>, <<"4", "K">>})
        THEN (IF AtLeast(size, GiB(15)) /\ AtMost(size, GiB(80)) THEN 15
              ELSE IF Less(GiB(5), size) /\ Less(size, GiB(15)) THEN 10 ELSE 0)
        ELSE IF Contains(title, <<"1", "0", "8", "0", "P">>)
        THEN (IF AtLeast(size, GiB(3)) /\ AtMost(size, GiB(25)) THEN 15
              ELSE IF AtLeast(size, OneAndHalfGB) /\ Less(size, GiB(3)) THEN 10 ELSE 0)
        ELSE IF Contains(title, <<"7", "2", "0", "P">>)
        THEN (IF AtLeast(size, GiB(1)) /\ AtMost(size, GiB(8)) THEN 15
              ELSE IF AtLeast(size, SevenTenthsGB) /\ Less(size, GiB(1)) THEN 10 ELSE 0)
        ELSE 0
  IN IF fit # 0 THEN fit
     ELSE IF Less(size, HalfGB) \/ Less(GiB(100), size) THEN -20
     ELSE 5

applyQualityPenalties(title) ==
  (IF ContainsAny(title, {<<"C", "A", "M">>, <<"T", "S">>, <<"H", "D", "C", "A", "M">>, <<"T", "E", "L", "E", "S", "Y", "N", "C">>, <<"H", "D", "T", "S">>, <<"T", "C">>})
   THEN -100 ELSE 0)
  + (IF ContainsAny(title, {<<"W", "O", "R", "K", "P", "R", "I", "N", "T">>, <<"W", "P">>, <<"U", "N", "F", "I", "N", "I", "S", "H", "E", "D">>, <<"L", "E", "A", "K">>})
     THEN -50 ELSE 0)
  + (IF ContainsAny(title, {<<"K", "O", "R", "S", "U", "B">>, <<"H", "C">>, <<"H", "A", "R", "D", "C", "O", "D", "E", "D">>}) THEN -30 ELSE 0)

scoreSeedersPeers(seeders, peers) ==
  (IF seeders >= 1000 THEN 100
   ELSE IF seeders >= 500 THEN 80
   ELSE IF seeders >= 200 THEN 60
   ELSE IF seeders >= 100 THEN 50
   ELSE IF seeders >= 50 THEN 40
   ELSE IF seeders >= 25 THEN 30
   ELSE IF seeders >= 15 THEN 25
   ELSE IF seeders >= 10 THEN 20
   ELSE IF seeders >= 5 THEN 15
   ELSE IF seeders >= 3 THEN 10
   ELSE IF seeders >= 1 THEN 5
   ELSE -50)
  + (IF peers >= 100 THEN 20
     ELSE IF peers >= 50 THEN 15
     ELSE IF peers >= 20 THEN 12
     ELSE IF peers >= 10 THEN 10
     ELSE IF peers >= 5 THEN 8
     ELSE IF peers >= 2 THEN 5
     ELSE 0)
  + (IF seeders > 0 /\ peers > 0
     THEN (IF seeders >= 2 * peers THEN 15
           ELSE IF seeders >= peers THEN 10
           ELSE IF 2 * seeders >= peers THEN 5
           ELSE 0)
     ELSE 0)

scoreMagnetAvailability(magnetURI, downloadURL) ==
  (IF magnetURI # <<>> /\ magnetURI # <<"n", "u", "l", "l">> /\ HasPrefix(magnetURI, <<"m", "a", "g", "n", "e", "t", ":">>)
   THEN 50 + (IF Contains(magnetURI, <<"t", "r", "=">>) THEN 10 ELSE 0)
           + (IF Contains(magnetURI, <<"d", "n", "=">>) THEN 5 ELSE 0)
   ELSE -30)
  + (IF downloadURL # <<>> /\ downloadURL # <<"n", "u", "l", "l">> THEN 10 ELSE 0)

\* lines 456-493: the score of the title match
scoreTitleMatch(title, movieTitle) ==
  LET movieWords == Fields(movieTitle)
      matched == {k \in 1..Len(movieWords) :
                    Len(movieWords[k]) > 2 /\ Contains(title, movieWords[k])}
      significant == {k \in matched : movieWords[k] \notin commonWords}
      cleanMovieTitle == ReplaceAll(ReplaceAll(ReplaceAll(movieTitle, <<":">>, <<>>),
                                               <<"-">>, <<" ">>),
                                    <<" ", " ">>, <<" ">>)
  IN 15 * Cardinality(significant) + 5 * Cardinality(matched \ significant)
     + (IF Cardinality(significant) >= 2 THEN 20 ELSE 0)
     + (IF Contains(title, movieTitle) THEN 40 ELSE 0)
     + (IF Contains(title, cleanMovieTitle) THEN 25 ELSE 0)

scoreLanguage(title) ==
  IF ContainsAny(title, {<<"D", "U", "B", "B", "E", "D">>, <<"F", "R", "E", "N", "C", "H">>, <<"G", "E", "R", "M", "A", "N">>, <<"S", "P", "A", "N", "I", "S", "H">>, <<"I", "T", "A", "L", "I", "A", "N">>})
  THEN -20 ELSE 0

\* score before the test of line 567
scoreSum(result, movie) ==
  LET title == ToUpper(result.Title)
  IN scoreTitleMatch(title, ToUpper(movie.Title))
     + (IF movie.Year > 0 /\ Contains(title, FormatInt(movie.Year)) THEN 40 ELSE 0)
     + scoreSeedersPeers(result.Seeders, result.Peers)
     + scoreReleaseType(title)
     + scoreQuality(title)
     + scoreEncoding(title)
     + scoreAudio(title)
     + scoreTrustedGroups(result.Title)
     + scoreMagnetAvailability(result.MagnetURI, result.Link)
     + scoreFitSize(result.Size, title)
     + applyQualityPenalties(title)
     + scoreLanguage(title)

scoreResult_NoFloor(result, movie) == scoreSum(result, movie)
scoreResult(result, movie) ==
  IF scoreSum(result, movie) < 0 THEN 0 ELSE scoreSum(result, movie)

scoreResult_Call ==
  /\ call.pc = "call"
  /\ call.fn = "scoreResult"
  /\ call' = [call EXCEPT !.pc = "done",
                          !.local = [score |-> scoreSum(call.in.result, call.in.movie)],
                          !.out = scoreResult(call.in.result, call.in.movie)]
  /\ UNCHANGED <<managerVars, search, writeFails, filter>>

ScoreTitles ==
  {<<"J", "a", "w", "s", " ", "1", "9", "7", "5", " ", "1", "0", "8", "0", "p", " ", "B", "l", "u", "R", "a", "y", " ", "x", "2", "6", "4", " ", "D", "T", "S", "-", "S", "P", "A", "R", "K", "S">>, <<"J", "a", "w", "s", ".", "1", "9", "7", "5", ".", "7", "2", "0", "p", ".", "W", "E", "B", "-", "D", "L", ".", "A", "A", "C", "-", "E", "V", "O">>,
   <<"j", "a", "w", "s", " ", "c", "a", "m", " ", "f", "r", "e", "n", "c", "h">>, <<"J", "a", "w", "s", " ", "1", "9", "7", "5", " ", "H", "D", "C", "A", "M", " ", "K", "O", "R", "S", "U", "B", " ", "G", "E", "R", "M", "A", "N">>, <<"J", "a", "w", "s", " ", "L", "E", "A", "K">>, <<"J", "a", "w", "s", " ", "1", "9", "7", "5">>,
   <<"T", "h", "e", " ", "T", "h", "i", "n", "g", " ", "1", "9", "8", "2", " ", "2", "1", "6", "0", "p", " ", "R", "E", "M", "U", "X", " ", "A", "t", "m", "o", "s">>, <<"U", "n", "r", "e", "l", "a", "t", "e", "d", " ", "F", "i", "l", "m", " ", "2", "0", "2", "0">>}
ScoreMovies == {[Title |-> Jaws, Year |-> 1975], [Title |-> TheThing, Year |-> 0]}
ScoreMagnets == {<<"m", "a", "g", "n", "e", "t", ":", "?", "x", "t", "=", "a", "b", "&", "d", "n", "=", "j", "&", "t", "r", "=", "u">>, <<"m", "a", "g", "n", "e", "t", ":", "?", "x", "t", "=", "a", "b">>, <<"n", "u", "l", "l">>, <<>>}
ScoreLinks == {<<"h", "t", "t", "p", ":", "/", "/", "x", "/", "t">>, <<>>}
ScoreSizes == {Bytes(100, 0), Bytes(2048, 0), GiB(20)}
ScoreResults ==
  [Title : ScoreTitles, Seeders : {0, 1, 1000}, Peers : {0, 2}, MagnetURI : ScoreMagnets,
   Link : ScoreLinks, Size : ScoreSizes]

InitScore ==
  /\ InitPure
  /\ call \in [pc : {"call"}, fn : {"scoreResult"},
               in : [result : ScoreResults, movie : ScoreMovies],
               local : {<<>>}, out : {<<>>}]

NextScore == scoreResult_Call

SpecScore == InitScore /\ [][NextScore]_vars

\* ------------------------------------- a sweep overlapping the creation trigger
\* createMovieHandler has stored a wanted movie and called
\* TriggerTorrentSearchForMovie on a started manager whose first sweep is about to
\* begin; from here on no handler is called: the goroutines run by themselves.
InitOverlap ==
  /\ torrentSearchJob = TRUE
  /\ movieEventRepo = TRUE
  /\ qbittorrentService = TRUE
  /\ running = TRUE
  /\ cancelled = FALSE
  /\ wg = 2
  /\ mu = "free"
  /\ stopPc = "idle"
  /\ canc = IdleCancel
  /\ events = [t \in Tasks |-> <<>>]
  /\ \E id \in MovieIds :
       /\ tasks = [t \in Tasks |->
                     IF t = Searcher THEN CallRec(IdleTask, id)
                     ELSE IF t = Lowest(PeriodicSlots) THEN [IdleTask EXCEPT !.pc = "p_start"]
                     ELSE IdleTask]
       /\ movies \in [MovieIds -> [Status : MediaStatus]]
       /\ movies[id].Status = StatusWanted
  /\ search = IdleSearch
  /\ writeFails = {}
  /\ filter = IdleFilter
  /\ call = IdleCall

NextOverlap ==
  \/ \E t \in Tasks : SearchForMovie(t)
  \/ \E t \in Tasks : runPeriodicTorrentSearch_Begin(t)
  \/ \E t \in Tasks : runPeriodicTorrentSearch_SweepReturned(t)
  \/ \E t \in Tasks : runPeriodicTorrentSearch_Select(t)
  \/ \E t \in Tasks : Tick(t)
  \/ \E t \in Tasks : ProcessMovieQueue_Next(t)
  \/ \E t \in Tasks : Trigger_Done(t)

SpecOverlap == InitOverlap /\ [][NextOverlap]_vars

\* ------------------------------------- one call, every set of collaborators
\* One SearchForMovie call on a job built by NewTorrentSearchJob with or without an
\* event repository and with or without a download client, for a movie in a
\* status the callers search in (wanted from the creation trigger, wanted or
\* not_found from the sweep); no write is rejected.
InitCollab ==
  /\ torrentSearchJob = TRUE
  /\ movieEventRepo \in BOOLEAN
  /\ qbittorrentService \in BOOLEAN
  /\ running = FALSE
  /\ cancelled = FALSE
  /\ wg = 1
  /\ mu = "free"
  /\ stopPc = "idle"
  /\ canc = IdleCancel
  /\ \E id \in MovieIds : tasks = [t \in Tasks |-> IF t = Searcher THEN CallRec(IdleTask, id)
                                                  ELSE IdleTask]
  /\ events = [t \in Tasks |-> <<>>]
  /\ movies \in [MovieIds -> [Status : {StatusWanted, StatusNotFound}]]
  /\ search = IdleSearch
  /\ filter = IdleFilter
  /\ call = IdleCall
  /\ writeFails = {}

\* The details of the status_changed event (line 213), built from the call's
\* copy of the movie as it is when the event is created.
StatusChangedDetails(movie) ==
  [old_status |-> movie.Status, new_status |-> StatusDownloading]

\* SearchForMovie lines 201-221 with the details of the status_changed event kept.
SearchForMovie_MarkLogged ==
  /\ SearchForMovie_Mark(Searcher)
  /\ search' = [search EXCEPT
       !.details = IF movieEventRepo /\ "events" \notin writeFails
                   THEN <<StatusChangedDetails(tasks'[Searcher].local)>> ELSE @]
  /\ UNCHANGED <<writeFails, filter, call>>

NextCollab ==
  \/ SearchForMovie_Load(Searcher)
  \/ SearchForMovie_SetSearching(Searcher)
  \/ SearchForMovie_Results(Searcher)
  \/ SearchForMovie_Download(Searcher)
  \/ SearchForMovie_MarkLogged
  \/ Trigger_Done(Searcher)

SpecCollab == InitCollab /\ [][NextCollab]_vars

\* ------------------------------------------------------- progress of Stop()
\* A manager built with or without a search job, with a download client, over a
\* table that holds one wanted movie and has lost another (deleted earlier).
InitLive ==
  /\ torrentSearchJob \in BOOLEAN
  /\ movieEventRepo = TRUE
  /\ qbittorrentService = TRUE
  /\ running = FALSE
  /\ cancelled = FALSE
  /\ wg = 0
  /\ mu = "free"
  /\ stopPc = "idle"
  /\ canc = IdleCancel
  /\ tasks = [t \in Tasks |-> IdleTask]
  /\ events = [t \in Tasks |-> <<>>]
  /\ movies = [m \in MovieIds |-> IF m = 1 THEN [Status |-> StatusWanted] ELSE NoMovie]
  /\ search = IdleSearch
  /\ filter = IdleFilter
  /\ call = IdleCall
  /\ writeFails = {}

\* The next step of goroutine t by itself: everything but the receive of a tick
\* and the return of the loop, which wait for the ticker and for cancel().
Goroutine(t) ==
  \/ SearchForMovie(t)
  \/ runPeriodicTorrentSearch_Begin(t)
  \/ runPeriodicTorrentSearch_WaitDone(t)
  \/ runPeriodicTorrentSearch_SweepReturned(t)
  \/ ProcessMovieQueue_Error(t)
  \/ ProcessMovieQueue_Next(t)
  \/ Trigger_Done(t)

\* The return of the loop at its select (lines 145-147).
runPeriodicTorrentSearch_Return(t) ==
  runPeriodicTorrentSearch_Select(t) /\ tasks'[t].pc = "idle"

\* What the Go scheduler and the calls' termination give: a goroutine that can
\* take its next step takes it; a select that finds ctx.Done() ready again and
\* again takes that case in the end (it chooses at random among the ready cases);
\* wg.Wait() returns once the counter is zero and stays zero (sync.WaitGroup
\* promises nothing for an Add that races with Wait at zero); a ticker, and the
\* callers of the handlers, owe nothing.
Fairness ==
  /\ \A t \in Tasks : WF_vars(Goroutine(t))
  /\ \A t \in PeriodicSlots : SF_vars(runPeriodicTorrentSearch_Return(t))
  /\ WF_vars(Stop_Wait)
  /\ WF_vars(CancelJobsForMovie_Update)

SpecLive == InitLive /\ [][Next]_vars /\ Fairness

\* --------------------------------------- the loop body of processResults, scored
\* One raw result through the body of the loop of processResults: dropped by one
\* of the continue tests, or appended with its score; of the score the parts that
\* depend on markers and tags of the title are kept apart.
processResults_Skip ==
  /\ call.pc = "call"
  /\ call.fn = "processResults"
  /\ ~processResults_Keeps(call.in.result, call.in.movieTitle)
  /\ call' = [call EXCEPT !.pc = "done", !.out = <<>>]
  /\ UNCHANGED <<managerVars, search, writeFails, filter>>

processResults_Append ==
  /\ call.pc = "call"
  /\ call.fn = "processResults"
  /\ processResults_Keeps(call.in.result, call.in.movieTitle)
  /\ call' = [call EXCEPT
       !.pc = "done",
       !.local = [releaseScore |-> scoreReleaseType(ToUpper(call.in.result.Title)),
                  groupScore |-> scoreTrustedGroups(call.in.result.Title),
                  penaltyScore |-> applyQualityPenalties(ToUpper(call.in.result.Title))],
       !.out = <<TorrentResult(call.in.result)>>]
  /\ UNCHANGED <<managerVars, search, writeFails, filter>>

TaggedTitles ==
  {<<"J", "a", "w", "s", " ", "1", "9", "7", "5", " ", "1", "0", "8", "0", "p", " ", "B", "l", "u", "R", "a", "y", " ", "S", "P", "A", "R", "K", "S">>, <<"J", "a", "w", "s", " ", "1", "9", "7", "5", " ", "U", "N", "F", "I", "N", "I", "S", "H", "E", "D">>, <<"j", "a", "w", "s", " ", "l", "e", "a", "k", " ", "7", "2", "0", "p">>,
   <<"J", "a", "w", "s", " ", "1", "9", "7", "5", " ", "W", "O", "R", "K", "P", "R", "I", "N", "T">>, <<"J", "a", "w", "s", " ", "1", "9", "7", "5", " ", "D", "V", "D", "S", "C", "R">>, <<"J", "a", "w", "s", " ", "S", "C", "R", "E", "E", "N", "E", "R">>, <<"J", "a", "w", "s", " ", "H", "D", "C", "A", "M">>,
   <<"J", "a", "w", "s", " ", "1", "9", "7", "5", " ", "K", "O", "R", "S", "U", "B">>, <<"J", "a", "w", "s", " ", "H", "C", " ", "1", "0", "8", "0", "p">>, <<"J", "a", "w", "s", " ", "1", "9", "7", "5", " ", "W", "E", "B", "-", "D", "L">>, <<"J", "a", "w", "s", " ", "1", "9", "7", "5", " ", "E", "V", "O">>,
   <<"J", "a", "w", "s", " ", "1", "9", "7", "5", " ", "y", "i", "f", "y">>, <<"J", "a", "w", "s", " ", "1", "9", "7", "5", " ", "Y", "T", "S">>, <<"J", "a", "w", "s", " ", "1", "9", "7", "5", " ", "R", "A", "R", "B", "G", " ", "Y", "I", "F", "Y">>, <<"J", "a", "w", "s", " ", "1", "9", "7", "5", " ", "E", "V", "O", " ", "Y", "I", "F", "Y">>,
   <<"J", "a", "w", "s", " ", "1", "9", "7", "5", " ", "P", "S", "A", " ", "C", "M", "R", "G">>, <<"J", "a", "w", "s", " ", "1", "9", "7", "5", " ", "C", "M", "R", "G", " ", "R", "A", "R", "B", "G">>,
   <<"J", "a", "w", "s", " ", "1", "9", "7", "5", " ", "A", "M", "Z", "N", " ", "W", "E", "B", "-", "D", "L", " ", "N", "T", "G">>, <<"O", "t", "h", "e", "r", " ", "1", "9", "7", "5", " ", "F", "G", "T">>}

InitKept ==
  /\ InitPure
  /\ call \in [pc : {"call"}, fn : {"processResults"},
               in : [result : [Title : TaggedTitles, Seeders : {0, 3},
                               MagnetURI : {"valid", ""}, Link : {"url", ""},
                               Size : {Bytes(700, 0)}],
                     movieTitle : {Jaws}],
               local : {<<>>}, out : {<<>>}]

NextKept ==
  \/ processResults_Skip
  \/ processResults_Append

SpecKept == InitKept /\ [][NextKept]_vars

\* ==================================================================== claims
\* pcs at which a goroutine executes the body of SearchForMovie for its movie
InFlightPcs == {"s_loaded", "s_searching", "s_download", "s_setdl"}
InFlight(t) == tasks[t].pc \in InFlightPcs

\* A step in which goroutine t begins a ProcessMovieQueue call.
SweepBegins(t) ==
  /\ tasks[t].pc \in {"p_start", "select"}
  /\ tasks'[t].pc \in {"s_call", "sweep_end"}

\* A step that spawns a periodic-sweep goroutine.
PeriodicSpawned == \E t \in PeriodicSlots : tasks[t].pc = "idle" /\ tasks'[t].pc = "p_start"

\* C1: at any moment at most one execution of SearchForMovie is in flight for a
\* given movie.
C1_OneSearchPerMovie ==
  \A t1, t2 \in Tasks :
    (t1 # t2 /\ InFlight(t1) /\ InFlight(t2)) => tasks[t1].movie # tasks[t2].movie

\* C2: in the step in which an effective Stop() returns, the task counter is zero
\* and no tracked background task (periodic loop or one-shot search) is executing.
C2_StopWaitsForTasks ==
  [][(stopPc = "waiting" /\ stopPc' = "idle") =>
       (wg = 0 /\ wg' = 0 /\ \A t \in Tasks : ~Live(t) /\ tasks'[t].pc = "idle")]_vars

\* C2 witness: Stop() has cancelled and is blocked in its wait while the periodic
\* loop and a one-shot search are both still executing.
C2_Witness ==
  /\ stopPc = "waiting"
  /\ cancelled /\ ~running
  /\ \E t \in LivePeriodic : InFlight(t)
  /\ \E t \in LiveTriggers : InFlight(t)

\* C3: whatever the sequence of Start() and Stop() calls, at most one periodic-sweep
\* task is live, and while the manager is running a Start() step changes nothing.
C3_AtMostOnePeriodicTask ==
  /\ Cardinality(LivePeriodic) <= 1
  /\ Cardinality(LivePeriodic) + Cardinality(LiveTriggers) = wg

\* C3 witness: the manager runs with exactly one periodic task, in a state where
\* Start() is enabled (lock free) and finds running set.
C3_Witness ==
  /\ running /\ mu = "free"
  /\ Cardinality(LivePeriodic) = 1
  /\ \E t \in LivePeriodic : tasks[t].pc = "select"

\* C4: whenever the manager is running (Start() took it from Stopped to Running,
\* also after an earlier Stop()), its periodic task is alive, until the next Stop().
C4_RunningHasPeriodicTask == running => LivePeriodic # {}

\* C5: once Stop() has signalled cancellation, no call of ProcessMovieQueue begins.
C5_NoSweepAfterCancel ==
  [][\A t \in PeriodicSlots : SweepBegins(t) => ~cancelled]_vars

\* C6: IsRunning() becomes true exactly in an effective Start() (the step that
\* spawns the periodic task) and false exactly in an effective Stop() (the step that
\* signals cancellation and begins to wait); a Stop() while stopped does neither.
C6_IsRunningTracksLifecycle ==
  [][/\ (~IsRunning /\ IsRunning') => (PeriodicSpawned /\ wg' = wg + 1)
     /\ PeriodicSpawned => (~IsRunning /\ IsRunning')
     /\ (IsRunning /\ ~IsRunning') => (cancelled' /\ stopPc = "idle" /\ stopPc' = "waiting")
     /\ (~cancelled /\ cancelled') => (IsRunning /\ ~IsRunning')
     /\ (stopPc = "idle" /\ stopPc' = "waiting") => (IsRunning /\ ~IsRunning')
     /\ (stopPc = "waiting") => ~IsRunning]_vars

\* C6 witness: running again in a second cycle, after an effective Stop() returned.
C6_Witness == IsRunning /\ cancelled /\ stopPc = "idle" /\ LivePeriodic # {}

\* The ids a sweep has to search, from the table as it is when the sweep reads it:
\* status wanted or not_found, newest first.
RECURSIVE C7_Expected(_, _)
C7_Expected(ms, id) ==
  IF id = 0 THEN <<>>
  ELSE (IF ms[id].Status \in {"wanted", "not_found"} THEN <<id>> ELSE <<>>)
       \o C7_Expected(ms, id - 1)

\* C7: a sweep calls SearchForMovie for exactly the movies whose status was wanted
\* or not_found when it read the table, one at a time in that order, and goes on to
\* the rest after a call that failed.
C7_SweepSearchesEligible ==
  /\ [][\A t \in PeriodicSlots :
          SweepBegins(t) => tasks'[t].queue = C7_Expected(movies, NumMovies)]_vars
  /\ [](\A t \in PeriodicSlots :
          /\ tasks[t].pc \in SearchPcs \cup {"s_done"} =>
               /\ tasks[t].idx \in 1..Len(tasks[t].queue)
               /\ tasks[t].invoked = SubSeq(tasks[t].queue, 1, tasks[t].idx)
               /\ tasks[t].movie = tasks[t].queue[tasks[t].idx]
          /\ tasks[t].pc = "sweep_end" => tasks[t].invoked = tasks[t].queue)

\* C7 witness: a sweep over two eligible movies whose first call failed has made
\* its second call, and that one returned without error.
C7_Witness ==
  \E t \in PeriodicSlots :
    /\ tasks[t].pc = "s_done" /\ tasks[t].ret = "nil"
    /\ tasks[t].errs = 1
    /\ Len(tasks[t].queue) = 2 /\ tasks[t].idx = 2

\* C8: with an empty final candidate list the call moves the movie from searching
\* to not_found and its events are search_started then one search_failed, nothing
\* else.
C8_NoResult ==
  /\ [][\A t \in Tasks :
          (tasks[t].pc = "s_searching" /\ tasks'[t].pc = "s_done" /\ ~tasks'[t].found) =>
            /\ tasks[t].local.Status = "searching"
            /\ Exists(movies, tasks[t].movie) => movies'[tasks[t].movie].Status = "not_found"]_vars
  /\ [](\A t \in Tasks :
          (tasks[t].pc = "s_done" /\ tasks[t].ret = "nil" /\ ~tasks[t].found) =>
            /\ tasks[t].local.Status = "not_found"
            /\ events[t] = <<"search_started", "search_failed">>)

\* C8 witness: a call that found nothing has returned and the row reads not_found.
C8_Witness ==
  \E t \in Tasks :
    /\ tasks[t].pc = "s_done" /\ tasks[t].ret = "nil" /\ ~tasks[t].found
    /\ movies[tasks[t].movie].Status = "not_found"

\* C9: with a candidate, a download client and a successful download the call sets
\* the status to downloading and its events are, in order, search_started,
\* search_completed, torrent_found, download_started, status_changed,
\* download_started.
C9_Downloaded ==
  /\ [][\A t \in Tasks :
          (tasks[t].pc = "s_setdl" /\ tasks'[t].pc = "s_done") =>
            /\ tasks[t].found /\ qbittorrentService /\ ~tasks[t].dlErr
            /\ Exists(movies, tasks[t].movie) => movies'[tasks[t].movie].Status = "downloading"]_vars
  /\ [](\A t \in Tasks :
          (tasks[t].pc = "s_done" /\ tasks[t].found /\ qbittorrentService /\ ~tasks[t].dlErr) =>
            /\ tasks[t].ret = "nil"
            /\ tasks[t].local.Status = "downloading"
            /\ events[t] = <<"search_started", "search_completed", "torrent_found",
                             "download_started", "status_changed", "download_started">>)

\* C9 witness: such a call has returned and the row reads downloading.
C9_Witness ==
  \E t \in Tasks :
    /\ tasks[t].pc = "s_done" /\ tasks[t].found /\ qbittorrentService /\ ~tasks[t].dlErr
    /\ movies[tasks[t].movie].Status = "downloading"

\* C10: when the download step fails the call logs download_failed, logs no
\* status_changed, writes nothing to the movie (its status stays as the call set it,
\* searching) and returns no error.
C10_DownloadFailed ==
  /\ [][\A t \in Tasks :
          (tasks[t].pc = "s_download" /\ tasks'[t].pc = "s_done") =>
            /\ tasks'[t].dlErr
            /\ movies' = movies]_vars
  /\ [](\A t \in Tasks :
          (tasks[t].pc = "s_done" /\ tasks[t].dlErr) =>
            /\ tasks[t].ret = "nil"
            /\ tasks[t].local.Status = "searching"
            /\ events[t] = <<"search_started", "search_completed", "torrent_found",
                             "download_started", "download_failed">>)

\* C10 witness: a call whose download failed has returned and the row still reads
\* searching.
C10_Witness ==
  \E t \in Tasks :
    /\ tasks[t].pc = "s_done" /\ tasks[t].dlErr /\ tasks[t].ret = "nil"
    /\ movies[tasks[t].movie].Status = "searching"

\* A goroutine whose SearchForMovie(m) call has returned after a failed download.
LeftSearching(m) ==
  /\ movies[m].Status = "searching"
  /\ \E u \in Tasks : tasks[u].pc = "s_done" /\ tasks[u].dlErr /\ tasks[u].movie = m
  /\ \A u \in Tasks : ~(InFlight(u) /\ tasks[u].movie = m)

\* C11: a sweep that begins while a movie is left in status searching by a failed
\* download takes that movie into the list of movies it searches.
C11_SweepRetriesSearching ==
  [][\A t \in PeriodicSlots : \A m \in MovieIds :
       (SweepBegins(t) /\ LeftSearching(m)) =>
         \E i \in 1..Len(tasks'[t].queue) : tasks'[t].queue[i] = m]_vars

\* C12: in every state in which CancelJobsForMovie(m) can be called for a movie
\* whose persisted status is searching or downloading, whatever the lifecycle state
\* of the manager, the call goes on to write the status failed.
C12_CancelAlwaysFails ==
  \A m \in MovieIds :
    (mu = "free" /\ canc.pc = "idle" /\ movies[m].Status \in {"searching", "downloading"}) =>
      ENABLED (CancelJobsForMovie_Load(m) /\ canc'.pc = "update" /\ canc'.local.Status = "failed")

\* C13: a status failed that CancelJobsForMovie forced while a SearchForMovie call
\* for the movie was in flight (the call had already written searching) stays: the
\* call does not write over it, so no later sweep finds the movie eligible again.
C13_CancelSticks ==
  [][\A u \in Tasks :
       LET m == tasks[u].movie IN
       (/\ tasks[u].pc \in {"s_searching", "s_download", "s_setdl"}
        /\ tasks'[u].pc # tasks[u].pc
        /\ movies[m].Status = "failed") =>
         movies'[m].Status = "failed"]_vars

\* C14: a SearchForMovie call whose movie cannot be loaded returns an error, writes
\* no movie and appends no event; a trigger goroutine whose call returned the error
\* can still finish (its deferred wg.Done() is all that is left).
C14_LoadFailure ==
  /\ [][\A t \in Tasks :
          (tasks[t].pc = "s_call" /\ tasks'[t].pc = "s_done") =>
            /\ ~Exists(movies, tasks[t].movie)
            /\ tasks'[t].ret = "err"
            /\ movies' = movies
            /\ events' = events]_vars
  /\ [](\A t \in TriggerSlots :
          (tasks[t].pc = "s_done" /\ tasks[t].ret = "err") =>
            /\ events[t] = <<>>
            /\ tasks[t].local = NoMovie
            /\ wg > 0
            /\ ENABLED Trigger_Done(t))

\* C14 witness: a trigger goroutine whose SearchForMovie call returned the load
\* error.
C14_Witness ==
  \E t \in TriggerSlots :
    /\ tasks[t].pc = "s_done" /\ tasks[t].ret = "err"
    /\ ~Exists(movies, tasks[t].movie)

\* C15: a failing indexer call counts as no result and the loop goes on: a query
\* whose calls all failed has made every attempt (ids if any, the seven categories,
\* the general search), the loop ends only after its last query, and a SearchForMovie
\* call whose indexer calls all failed ends not_found with search_started,
\* search_failed and a nil error.
C15_FailedCallsAreEmpty ==
  LET c == search.calls
      t == Searcher
  IN
  /\ search.failed => ~search.all
  /\ (search.pc = "end" /\ \A i \in 1..Len(c) : c[i].ans = "err") =>
       /\ Len(c) = (IF search.hasIds THEN 1 ELSE 0) + 7 + 1
       /\ c[Len(c)].kind = "generic"
  /\ search.pc = "done" => search.q = search.nq
  /\ (tasks[t].pc = "s_done" /\ search.pc = "done" /\ search.failed) =>
       /\ tasks[t].ret = "nil"
       /\ ~tasks[t].found
       /\ tasks[t].local.Status = "not_found"
       /\ movies[tasks[t].movie].Status = "not_found"
       /\ events[t] = <<"search_started", "search_failed">>

\* C15 witness: a call over two queries for a movie with ids, every indexer call of
\* which failed, has returned.
C15_Witness ==
  /\ tasks[Searcher].pc = "s_done"
  /\ search.pc = "done" /\ search.failed
  /\ search.nq = MaxQueries /\ search.hasIds
  /\ Len(search.calls) = 9

\* The category codes in the order the claim gives.
C16_Categories == <<"2000", "2010", "2020", "2030", "2040", "2050", "2060">>

\* C16: the indexer calls of one query are, in order: the search by ids iff the
\* movie carries an id; then the categories 2000 .. 2060 in that order; then the
\* general search after the seventh category. A call that returned results is the
\* last of its query, and a query ends only after such a call or the general search.
C16_CallOrder ==
  LET c == search.calls
      n == Len(c)
      first == IF search.hasIds THEN 1 ELSE 0
  IN
  /\ \A i \in 1..n :
       /\ c[i].kind = "id" <=> (search.hasIds /\ i = 1)
       /\ c[i].kind = "category" <=> (i - first) \in 1..7
       /\ c[i].kind = "category" => c[i].cat = C16_Categories[i - first]
       /\ c[i].kind = "generic" <=> i = first + 8
       /\ i < n => c[i].ans \in {"err", "empty"}
  /\ search.pc \in {"end", "done"} =>
       /\ n >= 1
       /\ c[n].ans \in {"junk", "good"} \/ c[n].kind = "generic"

\* C16 witness: a query for a movie with ids that went through the search by ids,
\* the seven categories and the general search.
C16_Witness ==
  /\ search.pc = "end" /\ search.hasIds
  /\ Len(search.calls) = 9
  /\ search.calls[9].kind = "generic" /\ search.calls[9].ans = "good"
  /\ search.calls[1].ans = "empty" /\ search.calls[2].ans = "err"

\* C17: a rejected status write or event insert changes nothing in the course of a
\* SearchForMovie call that loaded its movie: each step goes where it goes when the
\* write succeeds, the call's own copy of the status advances the same way, and
\* the call returns nil.
C17_WriteFailuresIgnored ==
  /\ [][/\ (tasks[Searcher].pc = "s_loaded" /\ tasks'[Searcher] # tasks[Searcher]) =>
             /\ tasks'[Searcher].pc = "s_searching"
             /\ tasks'[Searcher].local.Status = "searching"
        /\ (tasks[Searcher].pc = "s_searching" /\ tasks'[Searcher] # tasks[Searcher]) =>
             /\ tasks'[Searcher].pc = IF tasks'[Searcher].found /\ qbittorrentService
                                      THEN "s_download" ELSE "s_done"
             /\ tasks'[Searcher].local.Status =
                  IF tasks'[Searcher].found THEN "searching" ELSE "not_found"
        /\ (tasks[Searcher].pc = "s_download" /\ tasks'[Searcher] # tasks[Searcher]) =>
             tasks'[Searcher].pc = IF tasks'[Searcher].dlErr THEN "s_done" ELSE "s_setdl"
        /\ (tasks[Searcher].pc = "s_setdl" /\ tasks'[Searcher] # tasks[Searcher]) =>
             /\ tasks'[Searcher].pc = "s_done"
             /\ tasks'[Searcher].local.Status = "downloading"]_vars
  /\ []((tasks[Searcher].pc = "s_done" /\ tasks[Searcher].local # NoMovie) =>
          tasks[Searcher].ret = "nil")

\* C17 witness: a call that found a candidate and downloaded it has returned nil
\* although every one of its writes was rejected: the row is as it was and no event
\* was appended.
C17_Witness ==
  LET t == Searcher IN
  /\ tasks[t].pc = "s_done" /\ tasks[t].ret = "nil"
  /\ tasks[t].found /\ ~tasks[t].dlErr /\ tasks[t].local.Status = "downloading"
  /\ movies[tasks[t].movie].Status = "wanted"
  /\ events[t] = <<>>

\* C18: cancellation cuts nothing short. A goroutine ends only at its own end (the
\* loop at its select or its wait for ctx.Done(), a trigger goroutine after its
\* SearchForMovie call returned), the loop reaches its select only from a sweep that
\* called SearchForMovie for every movie of its list, and while the context is
\* cancelled every call in flight can still take its next step.
C18_StopAbortsNothing ==
  /\ [][\A t \in Tasks :
          /\ (Live(t) /\ tasks'[t].pc = "idle") =>
               tasks[t].pc \in (IF IsPeriodic(t) THEN {"select", "p_wait"} ELSE {"s_done"})
          /\ (tasks[t].pc # "select" /\ tasks'[t].pc = "select") =>
               (tasks[t].pc = "sweep_end" /\ tasks[t].invoked = tasks[t].queue)
          /\ (tasks[t].pc # "sweep_end" /\ tasks'[t].pc = "sweep_end") =>
               tasks'[t].invoked = tasks'[t].queue]_vars
  /\ [](\A t \in Tasks :
          cancelled =>
            /\ InSearch(t) => ENABLED SearchForMovie(t)
            /\ (IsPeriodic(t) /\ tasks[t].pc = "s_done") =>
                 ENABLED (ProcessMovieQueue_Error(t) \/ ProcessMovieQueue_Next(t)))

\* C18 witness: Stop() has cancelled and waits while the sweep, its first movie
\* done, is about to search the second movie of its list and an on-demand search
\* is in flight.
C18_Witness ==
  /\ cancelled /\ stopPc = "waiting"
  /\ \E t \in PeriodicSlots :
       tasks[t].pc = "s_call" /\ tasks[t].idx = 2 /\ Len(tasks[t].queue) = 2
  /\ \E t \in TriggerSlots : InFlight(t)

C20_Excluded(r, movieTitle) ==
  \/ r.Seeders = 0
  \/ \E k \in 1..Len(lowQualityMarkers) : Contains(ToUpper(r.Title), lowQualityMarkers[k])
  \/ /\ r.MagnetURI \in {"", "null", "junk"}
     /\ r.Link \in {"", "null"}
  \/ Less(r.Size, Bytes(100, 0))
  \/ Less(Bytes(100 * 1024, 0), r.Size)
  \/ ~isRelevantTitle(r.Title, movieTitle)
C20_Kept(results, movieTitle) ==
  LET Keep(r) == ~C20_Excluded(r, movieTitle)
      kept == SelectSeq(results, Keep)
  IN [k \in 1..Len(kept) |-> TorrentResult(kept[k])]
C20_FilterKeepsExactly ==
  filter.pc \in {"run", "done"} =>
    filter.processed = C20_Kept(SubSeq(filter.results, 1, filter.i - 1), filter.movie)
C20_Witness ==
  /\ filter.pc = "done"
  /\ Len(filter.results) = 2
  /\ filter.results[1].Seeders = 0
  /\ filter.results[2].Size = Bytes(100, 0)
  /\ filter.processed = <<TorrentResult(filter.results[2])>>

\* C21: with n the number of significant words of the movie title (not a stopword,
\* longer than 2) and m the number of them that occur in the candidate title, the
\* candidate is relevant iff m >= 1 when 1 <= n <= 2, iff m >= max(1, floor(3n/10))
\* when n > 2, and when n = 0 iff some movie-title word longer than 2 occurs in the
\* candidate title. For the movie "Jaws" every title containing JAWS in any letter
\* case is relevant and "Unrelated Film 2020" is not.
C21_Relevant(candidate, movie) ==
  LET words == Fields(ToUpper(movie))
      occurs(k) == Contains(ToUpper(candidate), words[k])
      sig == {k \in 1..Len(words) : words[k] \notin commonWords /\ Len(words[k]) > 2}
      n == Cardinality(sig)
      m == Cardinality({k \in sig : occurs(k)})
      floor3n10 == CHOOSE q \in 0..n : 10 * q <= 3 * n /\ 3 * n < 10 * (q + 1)
  IN CASE n = 0 -> \E k \in 1..Len(words) : Len(words[k]) > 2 /\ occurs(k)
       [] n \in 1..2 -> m >= 1
       [] n > 2 -> m >= (IF floor3n10 > 1 THEN floor3n10 ELSE 1)
C21_RelevanceRule ==
  (call.fn = "isRelevantTitle" /\ call.pc = "done") =>
    /\ call.out = C21_Relevant(call.in.torrentTitle, call.in.movieTitle)
    /\ (call.in.movieTitle = <<"J", "a", "w", "s">> /\ Contains(ToUpper(call.in.torrentTitle), <<"J", "A", "W", "S">>))
         => call.out = TRUE
    /\ (call.in.movieTitle = <<"J", "a", "w", "s">> /\ call.in.torrentTitle = <<"U", "n", "r", "e", "l", "a", "t", "e", "d", " ", "F", "i", "l", "m", " ", "2", "0", "2", "0">>)
         => call.out = FALSE
C21_Witness ==
  /\ call.fn = "isRelevantTitle"
  /\ call.pc = "done"
  /\ call.in.movieTitle = SevenWords
  /\ call.in.torrentTitle = <<"o", "n", "e", " ", "t", "w", "o", " ", "2", "0", "2", "0">>
  /\ call.out = TRUE

\* C22: in the final ranked list no two entries share a content hash and no two
\* hash-less entries share a lower-cased trimmed title; for each key the entry kept
\* is its first occurrence in the pool; and before truncation every candidate of the
\* pool is represented by exactly one kept entry with its key.
C22_Key(r) ==
  IF r.InfoHash # <<>> THEN <<"hash", r.InfoHash>>
  ELSE <<"title", ToLower(TrimSpace(r.Title))>>
C22_Deduplicated ==
  /\ (call.fn = "selectBestResults" /\ call.pc = "done") =>
       \A i, j \in 1..Len(call.out) : i # j => C22_Key(call.out[i]) # C22_Key(call.out[j])
  /\ (call.fn = "selectBestResults" /\ call.pc = "sort") =>
       /\ \A i \in 1..Len(call.local.unique) :
            \E p \in 1..Len(call.in) :
              /\ call.in[p] = call.local.unique[i]
              /\ \A q \in 1..(p - 1) : C22_Key(call.in[q]) # C22_Key(call.in[p])
       /\ \A p \in 1..Len(call.in) :
            Cardinality({i \in 1..Len(call.local.unique) :
                           C22_Key(call.local.unique[i]) = C22_Key(call.in[p])}) = 1

\* C23: the list selectBestResults returns has at most 10 entries, and for positions
\* i < j: score[i] >= score[j]; with equal scores an entry without a valid magnet
\* never precedes one with a valid magnet; with equal score and magnet validity
\* seeders[i] >= seeders[j]; and no deduplicated candidate that was discarded ranks
\* strictly better than a returned one.
C23_Magnet(r) == r.MagnetURI \notin {"", "null", "junk"}
C23_Better(a, b) ==
  \/ a.Score > b.Score
  \/ a.Score = b.Score /\ C23_Magnet(a) /\ ~C23_Magnet(b)
  \/ a.Score = b.Score /\ C23_Magnet(a) = C23_Magnet(b) /\ a.Seeders > b.Seeders
C23_Ranked ==
  (call.fn = "selectBestResults" /\ call.pc = "done" /\ Len(call.in) > 0) =>
    /\ Len(call.out) <= 10
    /\ \A i, j \in 1..Len(call.out) : i < j =>
         /\ call.out[i].Score >= call.out[j].Score
         /\ call.out[i].Score = call.out[j].Score =>
              ~(~C23_Magnet(call.out[i]) /\ C23_Magnet(call.out[j]))
         /\ (/\ call.out[i].Score = call.out[j].Score
             /\ C23_Magnet(call.out[i]) = C23_Magnet(call.out[j])) =>
              call.out[i].Seeders >= call.out[j].Seeders
    /\ \A d \in 1..Len(call.local.unique) : \A k \in 1..Len(call.out) :
         (\A i \in 1..Len(call.out) : call.out[i] # call.local.unique[d]) =>
           ~C23_Better(call.local.unique[d], call.out[k])
C23_Witness ==
  /\ call.fn = "selectBestResults"
  /\ call.pc = "done"
  /\ Len(call.in) = 12
  /\ Len(call.local.unique) = 12
  /\ Len(call.out) = 10
  /\ call.out[1].Score = 2
  /\ call.out[1].InfoHash = call.in[2].InfoHash
  /\ \A i \in 1..Len(call.out) : call.out[i] # call.in[1]

\* C24: buildSearchQueries returns, in this order: "{title} {year}" if the year is
\* present; the cleaned variant with year if it differs from the title and the year
\* is present; the title without its leading "The " (any letter case) with year if
\* the year is present; and the bare title iff fewer than 3 queries came before it.
\* For "The Matrix" and 1999, "The Matrix 1999" stands before "Matrix 1999".
C24_Position(queries, q) ==
  IF \E k \in 1..Len(queries) : queries[k] = q
  THEN CHOOSE k \in 1..Len(queries) : queries[k] = q
  ELSE 0
C24_QueryOrder ==
  (call.fn = "buildSearchQueries" /\ call.pc = "done") =>
    LET title == TrimSpace(call.in.Title)
        year == call.in.Year
        present == year # 0
        first == IF present THEN 1 ELSE 0
        second == IF present /\ call.local.cleanTitle # title THEN 1 ELSE 0
        third == IF present /\ Len(title) >= 4 /\ ToUpper(SubSeq(title, 1, 4)) = <<"T", "H", "E", " ">>
                 THEN 1 ELSE 0
        bare == IF first + second + third < 3 THEN 1 ELSE 0
    IN /\ Len(call.out) = first + second + third + bare
       /\ first = 1 => call.out[1] = title \o <<" ", "1", "9", "9", "9">>
       /\ second = 1 => call.out[first + 1] = call.local.cleanTitle \o <<" ", "1", "9", "9", "9">>
       /\ third = 1 =>
            call.out[first + second + 1] = TrimSpace(SubSeq(title, 5, Len(title))) \o <<" ", "1", "9", "9", "9">>
       /\ bare = 1 => call.out[Len(call.out)] = title
       /\ (call.in.Title = <<"T", "h", "e", " ", "M", "a", "t", "r", "i", "x">> /\ year = 1999) =>
            /\ C24_Position(call.out, <<"T", "h", "e", " ", "M", "a", "t", "r", "i", "x", " ", "1", "9", "9", "9">>) > 0
            /\ C24_Position(call.out, <<"T", "h", "e", " ", "M", "a", "t", "r", "i", "x", " ", "1", "9", "9", "9">>) < C24_Position(call.out, <<"M", "a", "t", "r", "i", "x", " ", "1", "9", "9", "9">>)
C24_Witness ==
  /\ call.fn = "buildSearchQueries"
  /\ call.pc = "done"
  /\ call.in.Title = <<"T", "h", "e", " ", "A", "-", "B">>
  /\ call.out = <<<<"T", "h", "e", " ", "A", "-", "B", " ", "1", "9", "9", "9">>, <<"T", "h", "e", " ", "A", " ", "B", " ", "1", "9", "9", "9">>, <<"A", "-", "B", " ", "1", "9", "9", "9">>>>

\* C25: the cleaned variant has its colons and hyphens replaced by spaces and its
\* whitespace collapsed: for every title it has no two consecutive spaces.
C25_CleanedCollapsed ==
  (/\ call.fn = "buildSearchQueries" /\ call.pc = "done"
   /\ call.in.Year # 0 /\ call.local.cleanTitle # call.local.baseTitle) =>
    /\ \A k \in 1..Len(call.out[2]) : call.out[2][k] \notin {":", "-"}
    /\ \A k \in 1..(Len(call.out[2]) - 1) :
         ~(call.out[2][k] = " " /\ call.out[2][k + 1] = " ")

\* C26: the candidate is submitted by its magnet URI when the magnet is present and
\* not "null"; otherwise by its download link through the torrent-file path; when
\* neither is usable the step returns the no-usable-source error and the download
\* client is not called. On success the returned identifier is stored on the movie
\* record, and a failure to store it does not make the step fail.
C26_DownloadStep ==
  (call.fn = "downloadTorrent" /\ call.pc = "done") =>
    LET magnet == call.in.result.MagnetURI
        link == call.in.result.DownloadURL
        byMagnet == magnet # "" /\ magnet # "null"
        byLink == ~byMagnet /\ link # ""
    IN /\ byMagnet => call.local.requests = <<[method |-> "AddTorrent", arg |-> magnet]>>
       /\ byLink => call.local.requests = <<[method |-> "AddTorrentFile", arg |-> link]>>
       /\ (~byMagnet /\ ~byLink) => (call.local.requests = <<>> /\ call.out = NoSourceError)
       /\ ((byMagnet \/ byLink) /\ call.in.answer # "error") =>
            /\ call.out = "nil"
            /\ (call.in.answer = "hash" /\ call.in.update = "ok") => call.local.row = "h"
       /\ ((byMagnet \/ byLink) /\ call.in.answer = "error") => call.out # "nil"
C26_Witness ==
  /\ call.fn = "downloadTorrent"
  /\ call.pc = "done"
  /\ call.in.result.MagnetURI = "null"
  /\ call.in.result.DownloadURL = "url"
  /\ call.in.answer = "hash"
  /\ call.in.update = "error"
  /\ call.local.requests = <<[method |-> "AddTorrentFile", arg |-> "url"]>>
  /\ call.out = "nil"

\* C27: the search_failed event of the no-candidates outcome records the number of
\* queries tried and the number of raw indexer results seen before filtering, so the
\* recorded count is positive whenever the indexer returned results that were all
\* filtered out.
C27_FailureDetails ==
  search.details # <<>> =>
    /\ search.details[1].search_queries = search.nq
    /\ search.details[1].total_results_found = search.raw
    /\ search.raw > 0 => search.details[1].total_results_found > 0

\* C28: for every raw candidate and movie scoreResult returns an integer >= 0; a
\* candidate whose contributions sum to a negative total (a cam marker, a foreign
\* dub and no magnet, say) gets exactly 0, and the scoring step excludes none.
C28_ScoreFloor ==
  (call.fn = "scoreResult" /\ call.pc = "done") =>
    /\ call.out \in Nat
    /\ call.local.score < 0 => call.out = 0
    /\ call.local.score >= 0 => call.out = call.local.score
C28_Witness ==
  /\ call.fn = "scoreResult"
  /\ call.pc = "done"
  /\ call.in.result.Title = <<"j", "a", "w", "s", " ", "c", "a", "m", " ", "f", "r", "e", "n", "c", "h">>
  /\ call.in.result.MagnetURI = <<>>
  /\ call.local.score < 0
  /\ call.out = 0

\* C29: a sweep starts SearchForMovie for a movie only if the persisted status of
\* the movie is wanted or not_found at the moment the search starts: a movie moved
\* to another status since the snapshot of the sweep is not searched by that sweep.
C29_SweepRechecksStatus ==
  [][\A t \in PeriodicSlots :
       (tasks[t].pc = "s_call" /\ tasks'[t].pc \in InFlightPcs) =>
         movies[tasks[t].movie].Status \in {"wanted", "not_found"}]_vars

\* C30: between two user actions on a movie the download client receives at most
\* one add request for it, however the sweep and the triggers interleave: no
\* goroutine sends an add request for a movie for which another goroutine has
\* already had one accepted, when no handler was called in between.
C30_OneAddRequest ==
  [][\A t, u \in Tasks :
       (/\ t # u
        /\ tasks[t].pc = "s_download" /\ tasks'[t].pc # "s_download"
        /\ tasks[u].pc = "s_setdl") =>
         tasks[u].movie # tasks[t].movie]_vars

\* C31: when a SearchForMovie call has returned nil and no download attempt of
\* it failed, the row of its movie holds not_found or downloading, whichever
\* collaborators the job was built with.
C31_NeverLeftSearching ==
  LET t == Searcher IN
  (tasks[t].pc = "s_done" /\ tasks[t].ret = "nil" /\ ~tasks[t].dlErr) =>
    movies[tasks[t].movie].Status \in {StatusNotFound, StatusDownloading}

\* C32: while the manager is stopped (before the first Start, and from the return
\* of Stop to the next Start) no goroutine is in a SearchForMovie call or about
\* to make one.
C32_NoSearchWhileStopped ==
  (~running /\ stopPc = "idle") => \A t \in Tasks : ~InSearch(t)

C34_MagnetPath ==
  (/\ call.fn = "downloadTorrent"
   /\ call.pc \in {"added", "done"}
   /\ call.in.result \in Survivors) =>
    \A k \in 1..Len(call.local.requests) :
      LET request == call.local.requests[k] IN
      /\ request.method = "AddTorrent" => HasMagnet(call.in.result)
      /\ ~HasMagnet(call.in.result) => request.method = "AddTorrentFile"

\* C35: a candidate whose title contains the whole movie title, letter case
\* aside, is relevant, for every movie title that is not empty.
C35_FullTitleIsRelevant ==
  (/\ call.fn = "isRelevantTitle"
   /\ call.pc = "done"
   /\ call.in.movieTitle # <<>>
   /\ Contains(ToUpper(call.in.torrentTitle), ToUpper(call.in.movieTitle))) =>
    call.out = TRUE

\* C36: a raw result with a seeder, a well-formed magnet, a size within the limits
\* and a relevant title is dropped for low quality only when one of the markers is
\* a word of its title; so the result titled with the movie title and a year is
\* kept.
C36_Years == {1975, 1982, 2019}
C36_Sound(r, movieTitle) ==
  /\ r.Seeders >= 1
  /\ r.MagnetURI = "valid"
  /\ ~Less(r.Size, MinSize) /\ ~Less(MaxSize, r.Size)
  /\ isRelevantTitle(r.Title, movieTitle)
C36_MarkerIsWord(title) ==
  \E k \in 1..Len(lowQualityMarkers) :
    \E w \in 1..Len(Fields(ToUpper(title))) : Fields(ToUpper(title))[w] = lowQualityMarkers[k]
C36_WholeMarkersOnly ==
  filter.pc = "done" =>
    \A k \in 1..Len(filter.results) :
      LET r == filter.results[k] IN
      /\ (C36_Sound(r, filter.movie) /\ ~C36_MarkerIsWord(r.Title)) =>
           \E p \in 1..Len(filter.processed) : filter.processed[p] = TorrentResult(r)
      /\ (C36_Sound(r, filter.movie)
          /\ \E year \in C36_Years : r.Title = TitleYear(filter.movie, year)) =>
           \E p \in 1..Len(filter.processed) : filter.processed[p] = TorrentResult(r)

\* C37: the status_changed event of a successful download records searching as
\* old status and downloading as new status.
C37_OldStatusRecorded ==
  \A k \in 1..Len(search.details) :
    ("old_status" \in DOMAIN search.details[k]) =>
      /\ search.details[k].old_status = StatusSearching
      /\ search.details[k].new_status = StatusDownloading
      /\ search.details[k].old_status # search.details[k].new_status

\* C38: for a result that processResults appends, the cam/telesync penalty and the
\* korsub/hardcoded penalty are 0 and the release-type score is not the 30 of
\* DVDSCR / SCREENER; the penalties sum to 0 or to the -50 of the workprint family,
\* and -50 only with UNFINISHED or LEAK in the title.
C38_Unfinished == {<<"U", "N", "F", "I", "N", "I", "S", "H", "E", "D">>, <<"L", "E", "A", "K">>}
C38_DeadPenalties ==
  (call.fn = "processResults" /\ call.pc = "done" /\ call.out # <<>>) =>
    /\ call.local.penaltyScore \in {0, -50}
    /\ call.local.releaseScore # 30
    /\ call.local.penaltyScore = -50 <=>
         ContainsAny(ToUpper(call.in.result.Title), C38_Unfinished)

\* C38 witness: a result with LEAK in its title was appended with a penalty of -50.
C38_Witness ==
  /\ call.fn = "processResults" /\ call.pc = "done"
  /\ call.in.result.Title = <<"j", "a", "w", "s", " ", "l", "e", "a", "k", " ", "7", "2", "0", "p">>
  /\ call.out = <<TorrentResult(call.in.result)>>
  /\ call.local.penaltyScore = -50

\* C39: the trusted-group bonus of an appended result is 25 when its title holds
\* a top-tier tag, 20 when it holds a mid-tier tag and no top-tier tag, 15 when it
\* holds only other listed tags, and 0 when it holds no listed tag.
C39_Holds(title, groups) ==
  \E k \in 1..Len(trustedGroups) :
    trustedGroups[k] \in groups /\ Contains(ToUpper(title), ToUpper(trustedGroups[k]))
C39_Listed == {trustedGroups[k] : k \in 1..Len(trustedGroups)}
C39_GroupBonus ==
  (call.fn = "processResults" /\ call.pc = "done" /\ call.out # <<>>) =>
    LET title == call.in.result.Title
        top == C39_Holds(title, topTierGroups)
        mid == C39_Holds(title, highQualityGroups)
        any == C39_Holds(title, C39_Listed)
    IN call.local.groupScore = (IF top THEN 25 ELSE IF mid THEN 20 ELSE IF any THEN 15 ELSE 0)

============================================================================
